---- MODULE Spec2Model ----
(***************************************************************************)
(* tvparser: calendar/window resolution (timeutils.py) and the             *)
(* normalise / deduplicate / merge engine (core.py).                       *)
(*                                                                         *)
(* Every library function is an operator computed as the code computes it; *)
(* every specification draws the call's arguments from bounded sets in its *)
(* initial state and its actions apply the function(s).                    *)
(***************************************************************************)
EXTENDS Integers, Sequences, FiniteSets, TLC

VARIABLES
    pc,          \* position of the caller: "ready", then the name of the last call
    zoneinfo,    \* TRUE iff `from zoneinfo import ZoneInfo` succeeded (timeutils.py:6-9)
    targs,       \* arguments of the calendar calls: date_str, start_time, end_time, tz
    tret,        \* value returned (or error raised) by the last calendar call
    aargs,       \* arguments of align_into_window: ts, start_ts, end_ts
    aret,        \* value returned by align_into_window
    pargs,       \* arguments of lines_to_timestamp_records: rows, tz
    pret,        \* records returned (or error raised) by lines_to_timestamp_records
    nargs,       \* arguments of normalize: df, drop_incomplete, indicators
    nret,        \* table returned (or error raised) by normalize(df)
    nret2,       \* table returned (or error raised) by normalize of the returned table
    dargs,       \* arguments of deduplicate: df, strategy
    dret,        \* table returned (or error raised) by deduplicate
    margs,       \* arguments of merge_frames: frames, dedupe_strategy, drop_incomplete, sort_order
    mret,        \* table returned (or error raised) by merge_frames
    sargs,       \* argument of summarize: df
    sret,        \* summary returned by summarize(df)
    sret2,       \* summary returned by a second summarize(df)
    files,       \* the files of the output directory, each a name and a content
    xargs,       \* arguments of the last extract_from_patterns / extract_from_slrun
    xret         \* paths returned (or error raised) by that call

timeVars == <<zoneinfo, targs, tret, aargs, aret, pargs, pret>>

coreVars == <<nargs, nret, nret2, dargs, dret, margs, mret, sargs, sret, sret2>>

extractVars == <<files, xargs, xret>>

vars == <<pc, timeVars, coreVars, extractVars>>

None == <<>>                    \* Python None; Some(x) is a present optional value
Some(x) == <<x>>

(***************************************************************************)
(* Numbers beyond 32 bits (millisecond timestamps, the 1e12 threshold) are *)
(* kept as two limbs: value = hi * Limb + lo, 0 <= lo < Limb.              *)
(***************************************************************************)
Limb == 10^6

Big(hi, lo) == [hi |-> hi, lo |-> lo]

BigOfInt(n) == Big(n \div Limb, n % Limb)

BigLess(a, b) == a.hi < b.hi \/ (a.hi = b.hi /\ a.lo < b.lo)

BigLeq(a, b) == a = b \/ BigLess(a, b)

BigSub(a, b) ==
    IF a.lo >= b.lo THEN Big(a.hi - b.hi, a.lo - b.lo)
    ELSE Big(a.hi - b.hi - 1, a.lo + Limb - b.lo)

\* n * 1000 for a 32-bit n
BigTimes1000(n) == Big(n \div 1000, (n % 1000) * 1000)

\* floor(a / 1000)
BigFloorDiv1000(a) == Big(a.hi \div 1000, (a.hi % 1000) * 1000 + (a.lo \div 1000))

(***************************************************************************)
(* timeutils.py                                                            *)
(***************************************************************************)
Ok(v) == [ok |-> TRUE, val |-> v, err |-> ""]

Raise(e) == [ok |-> FALSE, val |-> 0, err |-> e]

\* F(x), with x worked out a single time
Once(x, F(_)) == CHOOSE r \in { F(y) : y \in {x} } : TRUE

\* _parse_date: 'MM/DD/YY' or 'MM/DD/YYYY' split on "/" into integer tokens
_parse_date(date_str) ==
    IF Len(date_str) # 3 THEN Raise("ValueError")
    ELSE LET yy == date_str[3]
         IN Ok([year  |-> IF yy < 100 THEN 2000 + yy ELSE yy,
                month |-> date_str[1],
                day   |-> date_str[2]])

\* _parse_time: 'HH:MM' split on ":" into integer tokens
_parse_time(time_str) ==
    IF Len(time_str) # 2 THEN Raise("ValueError")
    ELSE LET hour == time_str[1]
             minute == time_str[2]
         IN IF ~(0 <= hour /\ hour < 24 /\ 0 <= minute /\ minute < 60)
            THEN Raise("ValueError")
            ELSE Ok([hour |-> hour, minute |-> minute])

(* The host's IANA database, cut down to the zones and the transitions that *)
(* bear on the modelled dates (December 2011, 2024, early 2025).  `init` is *)
(* the UTC offset in force before the first listed transition; a transition *)
(* is the UTC instant `at` and the offset `to` in force from then on.       *)
TzDatabase ==
    [ x \in {"America/Chicago", "Pacific/Apia"} |->
        IF x = "America/Chicago"
        THEN [init |-> -21600,
              trans |-> << [at |-> 1710057600, to |-> -18000],    \* 2024-03-10 08:00Z
                           [at |-> 1730617200, to |-> -21600] >>] \* 2024-11-03 07:00Z
        ELSE [init |-> -36000,
              trans |-> << [at |-> 1325239200, to |-> 50400],     \* 2011-12-30 10:00Z
                           [at |-> 1617458400, to |-> 46800] >>] ]\* 2021-04-03 14:00Z

UtcZone == [init |-> 0, trans |-> <<>>]

\* _tzinfo_for_name giving UTC for a name the database does not hold
tzinfo_falls_back_to_utc(tzname, zi) ==
    IF tzname = None \/ tzname = Some("UTC") THEN Ok(UtcZone)
    ELSE IF ~zi THEN Ok(UtcZone)
    ELSE IF tzname[1] \in DOMAIN TzDatabase THEN Ok(TzDatabase[tzname[1]])
    ELSE Ok(UtcZone)

_tzinfo_for_name(tzname, zi) ==
    IF tzname = None \/ tzname = Some("UTC") THEN Ok(UtcZone)
    ELSE IF ~zi THEN Ok(UtcZone)
    ELSE IF tzname[1] \in DOMAIN TzDatabase THEN Ok(TzDatabase[tzname[1]])
    ELSE Raise("ValueError")

IsLeap(y) == y % 4 = 0 /\ (y % 100 # 0 \/ y % 400 = 0)

DaysInMonth(y, m) ==
    IF m = 2 THEN (IF IsLeap(y) THEN 29 ELSE 28)
    ELSE IF m \in {4, 6, 9, 11} THEN 30 ELSE 31

DaysBeforeYear(y) ==
    LET p == y - 1 IN p * 365 + (p \div 4) - (p \div 100) + (p \div 400)

RECURSIVE DaysBeforeMonth(_, _)
DaysBeforeMonth(y, m) ==
    IF m <= 1 THEN 0 ELSE DaysBeforeMonth(y, m - 1) + DaysInMonth(y, m - 1)

\* datetime's proleptic Gregorian ordinal of a date
Ymd2Ord(y, m, d) == DaysBeforeYear(y) + DaysBeforeMonth(y, m) + d

ValidYmd(y, m, d) ==
    1 <= y /\ y <= 9999 /\ 1 <= m /\ m <= 12 /\ 1 <= d /\ d <= DaysInMonth(y, m)

\* wall-clock seconds since 1970-01-01T00:00 of a naive date-time, `plus` days later
WallSeconds(ymd, hm, plus) ==
    (Ymd2Ord(ymd.year, ymd.month, ymd.day) + plus - Ymd2Ord(1970, 1, 1)) * 86400
        + hm.hour * 3600 + hm.minute * 60

\* zoneinfo's utcoffset() of a wall-clock time: the offset after the last
\* transition whose wall-clock image is at or before `wall`; with fold = 0 a
\* transition's image is taken in the larger of its two offsets, with fold = 1
\* in the smaller one.
RECURSIVE OffsetFrom(_, _, _, _, _)
OffsetFrom(zone, i, before, wall, fld) ==
    IF i > Len(zone.trans) THEN before
    ELSE LET tr == zone.trans[i]
             hiOff == IF tr.to > before THEN tr.to ELSE before
             loOff == IF tr.to > before THEN before ELSE tr.to
             image == tr.at + (IF fld = 0 THEN hiOff ELSE loOff)
         IN IF wall >= image THEN OffsetFrom(zone, i + 1, tr.to, wall, fld)
            ELSE before

UtcOffset(zone, wall, fld) == OffsetFrom(zone, 1, zone.init, wall, fld)

\* int(datetime(y, m, d, H, M, tzinfo=zone, fold=fld).timestamp()), `plus` days later
Timestamp(zone, ymd, hm, plus, fld) ==
    LET wall == WallSeconds(ymd, hm, plus) IN wall - UtcOffset(zone, wall, fld)

to_timestamp(date_str, time_str, tzname, ms, fold, zi) ==
    LET d == _parse_date(date_str)
        t == _parse_time(time_str)
        z == _tzinfo_for_name(tzname, zi)
    IN IF ~d.ok THEN d
       ELSE IF ~t.ok THEN t
       ELSE IF ~z.ok THEN z
       ELSE IF ~ValidYmd(d.val.year, d.val.month, d.val.day) THEN Raise("ValueError")
       ELSE LET ts == Timestamp(z.val, d.val, t.val, 0, IF fold = None THEN 0 ELSE fold[1])
            IN Ok(IF ms THEN BigTimes1000(ts) ELSE ts)

\* window_start_end moving the end to the next day only when it is strictly before the start
window_start_end_strict(date_str, start_time, end_time, tzname, ms, zi) ==
    LET start == to_timestamp(date_str, start_time, tzname, FALSE, None, zi)
        end == to_timestamp(date_str, end_time, tzname, FALSE, None, zi)
    IN IF ~start.ok THEN start
       ELSE IF ~end.ok THEN end
       ELSE LET end2 ==
                    IF end.val < start.val
                    THEN Timestamp(_tzinfo_for_name(tzname, zi).val,
                                   _parse_date(date_str).val,
                                   _parse_time(end_time).val, 1, 0)
                    ELSE end.val
            IN IF ms
               THEN Ok([start_ts |-> BigTimes1000(start.val), end_ts |-> BigTimes1000(end2)])
               ELSE Ok([start_ts |-> start.val, end_ts |-> end2])

window_start_end(date_str, start_time, end_time, tzname, ms, zi) ==
    LET start == to_timestamp(date_str, start_time, tzname, FALSE, None, zi)
        end == to_timestamp(date_str, end_time, tzname, FALSE, None, zi)
    IN IF ~start.ok THEN start
       ELSE IF ~end.ok THEN end
       ELSE LET end2 ==
                    IF end.val <= start.val
                    THEN Timestamp(_tzinfo_for_name(tzname, zi).val,
                                   _parse_date(date_str).val,
                                   _parse_time(end_time).val, 1, 0)
                    ELSE end.val
            IN IF ms
               THEN Ok([start_ts |-> BigTimes1000(start.val), end_ts |-> BigTimes1000(end2)])
               ELSE Ok([start_ts |-> start.val, end_ts |-> end2])

SECONDS_PER_DAY == 86400

\* align_into_window with the day count rounded down instead of up
align_floor_steps(ts, start_ts, end_ts) ==
    IF start_ts <= ts /\ ts <= end_ts THEN ts
    ELSE LET fsteps == (start_ts - ts) \div SECONDS_PER_DAY
             fcand == ts + fsteps * SECONDS_PER_DAY
             bsteps == (ts - end_ts) \div SECONDS_PER_DAY
             bcand == ts - bsteps * SECONDS_PER_DAY
         IN IF ts < start_ts /\ fcand <= end_ts THEN fcand
            ELSE IF ts > end_ts /\ bcand >= start_ts THEN bcand
            ELSE ts

\* align_into_window moving ts onto the nearer end of the window
align_clamps(ts, start_ts, end_ts) ==
    IF ts < start_ts THEN start_ts ELSE IF ts > end_ts THEN end_ts ELSE ts

\* align_into_window trying a shift of one day only
align_single_day(ts, start_ts, end_ts) ==
    IF start_ts <= ts /\ ts <= end_ts THEN ts
    ELSE LET fcand == ts + SECONDS_PER_DAY
             bcand == ts - SECONDS_PER_DAY
         IN IF ts < start_ts /\ start_ts <= fcand /\ fcand <= end_ts THEN fcand
            ELSE IF ts > end_ts /\ start_ts <= bcand /\ bcand <= end_ts THEN bcand
            ELSE ts

\* align_into_window without the branch for ts > end_ts
align_forward_only(ts, start_ts, end_ts) ==
    IF start_ts <= ts /\ ts <= end_ts THEN ts
    ELSE LET fsteps == (start_ts - ts + SECONDS_PER_DAY - 1) \div SECONDS_PER_DAY
             fcand == ts + fsteps * SECONDS_PER_DAY
         IN IF ts < start_ts /\ fcand <= end_ts THEN fcand ELSE ts

align_into_window(ts, start_ts, end_ts) ==
    IF start_ts <= ts /\ ts <= end_ts THEN ts
    ELSE LET fsteps == (start_ts - ts + SECONDS_PER_DAY - 1) \div SECONDS_PER_DAY
             fcand == ts + fsteps * SECONDS_PER_DAY
             bsteps == (ts - end_ts + SECONDS_PER_DAY - 1) \div SECONDS_PER_DAY
             bcand == ts - bsteps * SECONDS_PER_DAY
         IN IF ts < start_ts /\ fcand <= end_ts THEN fcand
            ELSE IF ts > end_ts /\ bcand >= start_ts THEN bcand
            ELSE ts


(***************************************************************************)
(* scripts/patterns_to_timestamps.py: lines_to_timestamp_records           *)
(***************************************************************************)
\* the loop body without the two calls of align_into_window
record_without_alignment(row, tz, zi) ==
    LET window == window_start_end(row.date, row.start, row.end, tz, FALSE, zi)
        entry_ts == to_timestamp(row.date, row.entry, tz, FALSE, None, zi)
        exit_ts == to_timestamp(row.date, row.exit, tz, FALSE, None, zi)
    IN IF ~window.ok THEN window
       ELSE IF ~entry_ts.ok THEN entry_ts
       ELSE IF ~exit_ts.ok THEN exit_ts
       ELSE Ok([start |-> window.val.start_ts, end |-> window.val.end_ts,
                entry |-> entry_ts.val, exit |-> exit_ts.val])

\* lines 60-81, the body of the loop: the record of one row (date, start,
\* entry, exit, end), or the error the row raises
timestamp_record(row, tz, zi) ==
    LET window == window_start_end(row.date, row.start, row.end, tz, FALSE, zi)
        entry_ts == to_timestamp(row.date, row.entry, tz, FALSE, None, zi)
        exit_ts == to_timestamp(row.date, row.exit, tz, FALSE, None, zi)
    IN IF ~window.ok THEN window
       ELSE IF ~entry_ts.ok THEN entry_ts
       ELSE IF ~exit_ts.ok THEN exit_ts
       ELSE Ok([start |-> window.val.start_ts, end |-> window.val.end_ts,
                entry |-> align_into_window(entry_ts.val, window.val.start_ts,
                                            window.val.end_ts),
                exit |-> align_into_window(exit_ts.val, window.val.start_ts,
                                           window.val.end_ts)])

DEFAULT_TZ == Some("America/Chicago")

\* the tokens of a header line met after the first line: five parts, none a number
HeaderRow == [date |-> <<0>>, start |-> <<0>>, entry |-> <<0>>, exit |-> <<0>>, end |-> <<0>>]

\* _iter_rows from line i on; a line is blank, header-looking, short (fewer
\* than five parts) or a row of five parts.  The result lists what the
\* generator yields and ends with the error it raises, if it raises one.
RECURSIVE IterRowsFrom(_, _, _)
IterRowsFrom(lines, i, first) ==
    IF i > Len(lines) THEN <<>>
    ELSE LET line == lines[i]
         IN IF line.kind = "blank" THEN IterRowsFrom(lines, i + 1, first)
            ELSE IF first /\ line.kind = "header" THEN IterRowsFrom(lines, i + 1, FALSE)
            ELSE IF line.kind = "short" THEN << Raise("ValueError") >>
            ELSE << Ok(IF line.kind = "header" THEN HeaderRow ELSE line.row) >>
                     \o IterRowsFrom(lines, i + 1, FALSE)

_iter_rows(lines) == IterRowsFrom(lines, 1, TRUE)

lines_to_timestamp_records(lines, tz, zi) ==
    LET rows == _iter_rows(lines)
        made == [i \in DOMAIN rows |->
                    IF rows[i].ok THEN timestamp_record(rows[i].val, tz, zi) ELSE rows[i]]
        failed == { i \in DOMAIN rows : ~made[i].ok }
    IN IF failed # {} THEN made[CHOOSE i \in failed : \A j \in failed : i <= j]
       ELSE Ok([i \in DOMAIN rows |-> made[i].val])

(***************************************************************************)
(* extract_patterns.py, extract_slrun.py, slicer.py                        *)
(*                                                                         *)
(* A line of a pattern file is blank, header-looking (it holds the word    *)
(* "date"), short (fewer than five comma-separated parts) or a row of five *)
(* parts.  A file of the output directory is [name, content]; a name is    *)
(* the record of the parts that format_window_filename puts into it.       *)
(***************************************************************************)
\* parse_pattern_lines that leaves out a line with fewer than five parts
RECURSIVE parse_skips_short_lines(_, _, _, _, _, _)
parse_skips_short_lines(lines, i, first, out, tz, zi) ==
    IF i > Len(lines) THEN Ok(out)
    ELSE LET line == lines[i]
         IN IF line.kind = "blank" THEN parse_skips_short_lines(lines, i + 1, first, out, tz, zi)
            ELSE IF first /\ line.kind = "header"
            THEN parse_skips_short_lines(lines, i + 1, FALSE, out, tz, zi)
            ELSE IF line.kind = "short"
            THEN parse_skips_short_lines(lines, i + 1, FALSE, out, tz, zi)
            ELSE LET row == IF line.kind = "header" THEN HeaderRow ELSE line.row
                     Rest(w) ==
                         IF ~w.ok THEN w
                         ELSE parse_skips_short_lines(lines, i + 1, FALSE,
                                  Append(out, [date_str |-> row.date, start |-> row.start,
                                               end |-> row.end, start_ts |-> w.val.start_ts,
                                               end_ts |-> w.val.end_ts]),
                                  tz, zi)
                 IN Once(window_start_end(row.date, row.start, row.end, tz, FALSE, zi), Rest)

\* the loop of parse_pattern_lines and of parse_slrun_lines from line i on,
\* `out` holding the windows made so far; the ValueError of a short line
\* carries the number of that line
RECURSIVE ParseLinesFrom(_, _, _, _, _, _)
ParseLinesFrom(lines, i, first, out, tz, zi) ==
    IF i > Len(lines) THEN Ok(out)
    ELSE LET line == lines[i]
         IN IF line.kind = "blank" THEN ParseLinesFrom(lines, i + 1, first, out, tz, zi)
            ELSE IF first /\ line.kind = "header"
            THEN ParseLinesFrom(lines, i + 1, FALSE, out, tz, zi)
            ELSE IF line.kind = "short" THEN [ok |-> FALSE, val |-> i, err |-> "ValueError"]
            ELSE LET row == IF line.kind = "header" THEN HeaderRow ELSE line.row
                     Rest(w) ==
                         IF ~w.ok THEN w
                         ELSE ParseLinesFrom(lines, i + 1, FALSE,
                                  Append(out, [date_str |-> row.date, start |-> row.start,
                                               end |-> row.end, start_ts |-> w.val.start_ts,
                                               end_ts |-> w.val.end_ts]),
                                  tz, zi)
                 IN Once(window_start_end(row.date, row.start, row.end, tz, FALSE, zi), Rest)

parse_pattern_lines(lines, tz, zi) == ParseLinesFrom(lines, 1, TRUE, <<>>, tz, zi)

parse_slrun_lines(lines, tz, zi) == ParseLinesFrom(lines, 1, TRUE, <<>>, tz, zi)

\* 'MM/DD/YY' or 'MM/DD/YYYY' -> the year, month and day of 'YYYY-MM-DD'
_iso_date_from_mdy(date_str) ==
    << IF date_str[3] < 100 THEN 2000 + date_str[3] ELSE date_str[3], date_str[1], date_str[2] >>

\* extract_patterns.format_window_filename with the default prefix, pad and template
format_window_filename(w, numbered, index) ==
    IF numbered THEN [numbered |-> TRUE, index |-> index, date |-> <<>>, start |-> <<>>, end |-> <<>>]
    ELSE [numbered |-> FALSE, index |-> 0, date |-> _iso_date_from_mdy(w.date_str),
          start |-> w.start, end |-> w.end]

\* extract_slrun.format_window_filename
slrun_format_window_filename(w) ==
    [numbered |-> FALSE, index |-> 0, date |-> _iso_date_from_mdy(w.date_str),
     start |-> w.start, end |-> w.end]

\* the ts values of the rows of the input CSV
CsvTs == << 1728838800, 1728860000, 1728889200, 1728925200, 1728975600 >>

\* slice_csv_window: the rows written to out_path (none: the header only), or
\* the error raised before anything is written
slice_csv_window(csv, start_ts, end_ts) ==
    IF csv = "missing" THEN Raise("FileNotFoundError")
    ELSE IF csv = "no_ts" THEN Raise("ValueError")
    ELSE Ok(SelectSeq(CsvTs, LAMBDA ts : start_ts <= ts /\ ts <= end_ts))

Exists(fs, name) == \E f \in fs : f.name = name

WriteFile(fs, name, content) ==
    { f \in fs : f.name # name } \cup { [name |-> name, content |-> content] }

\* the loop with the test `outp.exists() and not force` left out
RECURSIVE loop_overwrites_always(_, _, _, _, _, _)
loop_overwrites_always(names, windows, i, fs, written, a) ==
    IF i > Len(windows) THEN [files |-> fs, out |-> Ok(written)]
    ELSE LET Rest(sliced) ==
                 IF sliced.ok
                 THEN loop_overwrites_always(names, windows, i + 1,
                                             WriteFile(fs, names[i], sliced.val),
                                             Append(written, names[i]), a)
                 ELSE IF a.continue_on_error
                 THEN loop_overwrites_always(names, windows, i + 1, fs, written, a)
                 ELSE [files |-> fs, out |-> sliced]
         IN Once(slice_csv_window(a.csv, windows[i].start_ts, windows[i].end_ts), Rest)

\* the loop over the windows (extract_patterns.py:124-148, extract_slrun.py:
\* 94-110) from window i on: names[i] is the file name of window i, fs the
\* files of out_dir, written the paths appended so far
RECURSIVE ExtractLoop(_, _, _, _, _, _)
ExtractLoop(names, windows, i, fs, written, a) ==
    IF i > Len(windows) THEN [files |-> fs, out |-> Ok(written)]
    ELSE IF Exists(fs, names[i]) /\ ~a.force
    THEN ExtractLoop(names, windows, i + 1, fs, written, a)
    ELSE LET Rest(sliced) ==
                 IF sliced.ok
                 THEN ExtractLoop(names, windows, i + 1, WriteFile(fs, names[i], sliced.val),
                                  Append(written, names[i]), a)
                 ELSE IF a.continue_on_error
                 THEN ExtractLoop(names, windows, i + 1, fs, written, a)
                 ELSE [files |-> fs, out |-> sliced]
         IN Once(slice_csv_window(a.csv, windows[i].start_ts, windows[i].end_ts), Rest)

\* a: the arguments (lines of slrun_path, csv, tz, numbered, force,
\* continue_on_error); fs: the files of out_dir; the result is the files
\* afterwards and the list returned or the error raised
extract_from_patterns(a, fs, zi) ==
    LET Rest(windows) ==
            IF ~windows.ok THEN [files |-> fs, out |-> windows]
            ELSE ExtractLoop([i \in DOMAIN windows.val |->
                                 format_window_filename(windows.val[i], a.numbered, i)],
                             windows.val, 1, fs, <<>>, a)
    IN Once(parse_pattern_lines(a.lines, a.tz, zi), Rest)

extract_from_slrun(a, fs, zi) ==
    LET Rest(windows) ==
            IF ~windows.ok THEN [files |-> fs, out |-> windows]
            ELSE ExtractLoop([i \in DOMAIN windows.val |->
                                 slrun_format_window_filename(windows.val[i])],
                             windows.val, 1, fs, <<>>, a)
    IN Once(parse_slrun_lines(a.lines, a.tz, zi), Rest)

(***************************************************************************)
(* core.py: tables                                                         *)
(*                                                                         *)
(* A table (DataFrame) is [cols, rows]: the column names in order and the  *)
(* rows, each a sequence of cells aligned with cols.  A cell is            *)
(*   "na"     None / NaN / <NA>                                            *)
(*   "num"    the number hi * Limb + lo (+ 1/2 when half = 1)              *)
(*   "numstr" a string that spells that number, e.g. "4000"                *)
(*   "str"    a string that spells no number, e.g. "abc"                   *)
(***************************************************************************)
NA == [k |-> "na", hi |-> 0, lo |-> 0, half |-> 0]

Num(n) == [k |-> "num", hi |-> n \div Limb, lo |-> n % Limb, half |-> 0]

NumBig(hi, lo) == [k |-> "num", hi |-> hi, lo |-> lo, half |-> 0]

NumAndHalf(n) == [k |-> "num", hi |-> n \div Limb, lo |-> n % Limb, half |-> 1]

NumStr(n) == [k |-> "numstr", hi |-> n \div Limb, lo |-> n % Limb, half |-> 0]

Str == [k |-> "str", hi |-> 0, lo |-> 0, half |-> 0]

IsNA(c) == c.k = "na"

CellLess(a, b) == BigLess(a, b) \/ (a.hi = b.hi /\ a.lo = b.lo /\ a.half < b.half)

Range(seq) == { seq[i] : i \in DOMAIN seq }

\* the elements of seq in ascending order of Less; equal elements keep their order
SortBy(seq, Less(_, _)) ==
    LET n == Len(seq)
        Rank(i) == Cardinality({ j \in 1..n :
                        Less(seq[j], seq[i]) \/ (~Less(seq[i], seq[j]) /\ j < i) }) + 1
    IN [p \in 1..n |-> seq[CHOOSE i \in 1..n : Rank(i) = p]]

Table(cols, rows) == [cols |-> cols, rows |-> rows]

Empty(df) == Len(df.rows) = 0 \/ Len(df.cols) = 0

HasColumn(df, name) == name \in Range(df.cols)

IndexOf(cols, name) ==
    CHOOSE i \in DOMAIN cols : cols[i] = name /\ \A j \in 1..(i - 1) : cols[j] # name

\* df[name]
Column(df, name) ==
    [r \in DOMAIN df.rows |-> df.rows[r][IndexOf(df.cols, name)]]

\* the rows of df at the given positions, in that order
TakeRows(df, positions) ==
    [df EXCEPT !.rows = [p \in DOMAIN positions |-> df.rows[positions[p]]]]

\* the positions 1..n that satisfy Keep, ascending
Positions(n, Keep(_)) == SelectSeq([i \in 1..n |-> i], Keep)

RaiseWith(e, detail) == [ok |-> FALSE, val |-> detail, err |-> e]

(***************************************************************************)
(* core.py: normalize                                                      *)
(***************************************************************************)
REQUIRED_COLUMNS == <<"time", "open", "high", "low", "close", "volume">>

COLUMN_ALIASES ==
    [ x \in {"timestamp", "datetime", "date", "t", "o", "open", "h", "high",
             "l", "low", "c", "close", "v", "vol", "volume"} |->
        CASE x \in {"timestamp", "datetime", "date", "t"} -> "time"
          [] x \in {"o", "open"} -> "open"
          [] x \in {"h", "high"} -> "high"
          [] x \in {"l", "low"} -> "low"
          [] x \in {"c", "close"} -> "close"
          [] OTHER -> "volume" ]

_INDICATOR_DEFAULTS == <<"ema", "vwap", "atr">>

\* col.strip().lower(), on the column names the model uses
StripLower(col) ==
    CASE col = "Time" -> "time"
      [] col = "Timestamp" -> "timestamp"
      [] col = "Date" -> "date"
      [] col = "O" -> "o"
      [] col = "H" -> "h"
      [] col = "L" -> "l"
      [] col = "C" -> "c"
      [] col = "Vol" -> "vol"
      [] col = " Volume " -> "volume"
      [] col = "Volume" -> "volume"
      [] col = "EMA" -> "ema"
      [] col = "RSI" -> "rsi"
      [] OTHER -> col

\* _canonicalize_columns looking names up as they are spelled, without strip().lower()
canonicalize_case_sensitive(columns) ==
    [ i \in DOMAIN columns |->
        IF columns[i] \in DOMAIN COLUMN_ALIASES THEN COLUMN_ALIASES[columns[i]]
        ELSE columns[i] ]

_canonicalize_columns(columns) ==
    [ i \in DOMAIN columns |->
        LET low == StripLower(columns[i])
        IN IF low \in DOMAIN COLUMN_ALIASES THEN COLUMN_ALIASES[low] ELSE low ]

\* the first non-null cell of `cells`, scanning left to right (bfill(axis=1).iloc[:, 0])
FirstNonNull(cells) ==
    IF \A i \in DOMAIN cells : IsNA(cells[i]) THEN cells[1]
    ELSE cells[CHOOSE i \in DOMAIN cells :
                 ~IsNA(cells[i]) /\ \A j \in 1..(i - 1) : IsNA(cells[j])]

\* _collapse_duplicate_columns keeping the first column of each name as it is,
\* without bfill
collapse_keeps_first_column(df) ==
    LET n == Len(df.cols)
        firsts == Positions(n, LAMBDA i : \A j \in 1..(i - 1) : df.cols[j] # df.cols[i])
    IN Table([g \in DOMAIN firsts |-> df.cols[firsts[g]]],
             [r \in DOMAIN df.rows |-> [g \in DOMAIN firsts |-> df.rows[r][firsts[g]]]])

_collapse_duplicate_columns(df) ==
    LET n == Len(df.cols)
        IsFirst(i) == \A j \in 1..(i - 1) : df.cols[j] # df.cols[i]
        firsts == Positions(n, IsFirst)
        Indices(name) == Positions(n, LAMBDA j : df.cols[j] = name)
        Coalesced(row, name) ==
            IF Len(Indices(name)) = 1 THEN row[Indices(name)[1]]
            ELSE FirstNonNull([q \in DOMAIN Indices(name) |-> row[Indices(name)[q]]])
    IN Table([g \in DOMAIN firsts |-> df.cols[firsts[g]]],
             [r \in DOMAIN df.rows |->
                 [g \in DOMAIN firsts |-> Coalesced(df.rows[r], df.cols[firsts[g]])]])

\* pd.to_numeric(series, errors="coerce"), cell by cell
ToNumeric(c) == IF c.k \in {"num", "numstr"} THEN [c EXCEPT !.k = "num"] ELSE NA

\* series.astype("Int64") of a numeric series: fails on a value with a fractional part
AsInt64(series) ==
    IF \E i \in DOMAIN series : series[i].half = 1 THEN RaiseWith("TypeError", "Int64")
    ELSE Ok(series)

\* 1e12, the threshold of the millisecond heuristic
MsThreshold == Big(1000000, 0)

\* float(numeric.median(skipna=True)) > limit
MedianAbove(numeric, limit) ==
    LET present == SelectSeq(numeric, LAMBDA c : ~IsNA(c))
        sorted == SortBy(present, CellLess)
        n == Len(sorted)
    IN IF n % 2 = 1
       THEN CellLess([limit EXCEPT !.half = 0], sorted[(n + 1) \div 2])
       ELSE LET a == sorted[n \div 2]
                b == sorted[n \div 2 + 1]
                below == BigSub(limit, Big(a.hi, a.lo))       \* limit - a
                above == BigSub(Big(b.hi, b.lo), limit)       \* b - limit
            IN BigLess(below, above) \/ (below = above /\ a.half + b.half > 0)

\* numeric // 1000, cell by cell
FloorDiv1000(c) ==
    IF IsNA(c) THEN c
    ELSE LET q == BigFloorDiv1000(Big(c.hi, c.lo)) IN NumBig(q.hi, q.lo)

\* _detect_and_normalize_time_series dividing by 1000 whatever the median is
detect_always_millis(series) ==
    LET numeric == [i \in DOMAIN series |-> ToNumeric(series[i])]
    IN IF \A i \in DOMAIN numeric : IsNA(numeric[i]) THEN Ok(numeric)
       ELSE AsInt64([i \in DOMAIN numeric |-> FloorDiv1000(numeric[i])])

\* _detect_and_normalize_time_series deciding the unit of each value on its own
detect_per_row(series) ==
    LET numeric == [i \in DOMAIN series |-> ToNumeric(series[i])]
        limit == [hi |-> MsThreshold.hi, lo |-> MsThreshold.lo, half |-> 0]
    IN IF \A i \in DOMAIN numeric : IsNA(numeric[i]) THEN Ok(numeric)
       ELSE AsInt64([i \in DOMAIN numeric |->
                IF ~IsNA(numeric[i]) /\ CellLess(limit, numeric[i])
                THEN FloorDiv1000(numeric[i]) ELSE numeric[i]])

_detect_and_normalize_time_series(series) ==
    LET numeric == [i \in DOMAIN series |-> ToNumeric(series[i])]
        limit == [hi |-> MsThreshold.hi, lo |-> MsThreshold.lo, half |-> 0]
    IN IF \A i \in DOMAIN numeric : IsNA(numeric[i]) THEN Ok(numeric)
       ELSE IF MedianAbove(numeric, limit)
       THEN AsInt64([i \in DOMAIN numeric |-> FloorDiv1000(numeric[i])])
       ELSE AsInt64(numeric)

_coerce_indicator_columns(df, indicators) ==
    IF Empty(df) THEN df
    ELSE LET wanted == IF indicators = None THEN _INDICATOR_DEFAULTS ELSE indicators[1]
             Coerce(c) == c \in Range(wanted)
         IN [df EXCEPT !.rows =
                [r \in DOMAIN df.rows |->
                    [i \in DOMAIN df.cols |->
                        IF Coerce(df.cols[i]) THEN ToNumeric(df.rows[r][i])
                        ELSE df.rows[r][i]]]]

\* work.dropna() without subset: a null in any column removes the row
dropna_any_column(df) ==
    TakeRows(df, Positions(Len(df.rows),
        LAMBDA r : \A i \in DOMAIN df.cols : ~IsNA(df.rows[r][i])))

\* work.dropna(subset=REQUIRED_COLUMNS)
DropIncomplete(df) ==
    TakeRows(df, Positions(Len(df.rows),
        LAMBDA r : \A c \in Range(REQUIRED_COLUMNS) : ~IsNA(df.rows[r][IndexOf(df.cols, c)])))

\* lines 193-194: the closing cast of the time column to int64
CastTimeInt64(df) ==
    LET time == Column(df, "time")
    IN IF HasColumn(df, "time") /\ ~(\A r \in DOMAIN time : IsNA(time[r]))
       THEN IF \E r \in DOMAIN time : IsNA(time[r])
            THEN RaiseWith("ValueError", "cannot convert NA to integer")
            ELSE Ok(df)
       ELSE Ok(df)

\* the coercion of normalize with the unit of the times decided after the
\* incomplete rows are removed, from the rows that stay
coerce_detects_after_dropna(work, drop_incomplete, indicators) ==
    LET volume == AsInt64([r \in DOMAIN work.rows |->
                             ToNumeric(Column(work, "volume")[r])])
    IN IF ~volume.ok THEN volume
       ELSE LET typed ==
                    [work EXCEPT !.rows =
                        [r \in DOMAIN work.rows |->
                            [i \in DOMAIN work.cols |->
                                CASE work.cols[i] \in {"time", "open", "high", "low", "close"}
                                       -> ToNumeric(work.rows[r][i])
                                  [] work.cols[i] = "volume" -> volume.val[r]
                                  [] OTHER -> work.rows[r][i]]]]
                kept == IF drop_incomplete THEN DropIncomplete(typed) ELSE typed
                time_ser == _detect_and_normalize_time_series(Column(kept, "time"))
            IN IF ~time_ser.ok THEN time_ser
               ELSE CastTimeInt64(_coerce_indicator_columns(
                        [kept EXCEPT !.rows =
                            [r \in DOMAIN kept.rows |->
                                [i \in DOMAIN kept.cols |->
                                    IF kept.cols[i] = "time" THEN time_ser.val[r]
                                    ELSE kept.rows[r][i]]]],
                        indicators))

\* lines 173-197 of normalize: the coercion of the values of a table that has
\* the six required columns, the removal of incomplete rows, the closing cast
CoerceValues(work, drop_incomplete, indicators) ==
    LET time_ser == _detect_and_normalize_time_series(Column(work, "time"))
        volume == AsInt64([r \in DOMAIN work.rows |->
                             ToNumeric(Column(work, "volume")[r])])
    IN IF ~time_ser.ok THEN time_ser
       ELSE IF ~volume.ok THEN volume
       ELSE LET typed ==
                    [work EXCEPT !.rows =
                        [r \in DOMAIN work.rows |->
                            [i \in DOMAIN work.cols |->
                                CASE work.cols[i] = "time" -> time_ser.val[r]
                                  [] work.cols[i] \in {"open", "high", "low", "close"}
                                       -> ToNumeric(work.rows[r][i])
                                  [] work.cols[i] = "volume" -> volume.val[r]
                                  [] OTHER -> work.rows[r][i]]]]
                kept == IF drop_incomplete THEN DropIncomplete(typed) ELSE typed
            IN CastTimeInt64(_coerce_indicator_columns(kept, indicators))

\* normalize coercing the time column before it looks for missing columns
normalize_coerces_first(df, drop_incomplete, indicators) ==
    IF df = None THEN RaiseWith("ValueError", "normalize: df must not be None")
    ELSE IF Empty(df) THEN Ok(Table(REQUIRED_COLUMNS, <<>>))
    ELSE LET renamed == Table(_canonicalize_columns(df.cols), df.rows)
             work == _collapse_duplicate_columns(renamed)
             missing == SelectSeq(REQUIRED_COLUMNS, LAMBDA c : ~HasColumn(work, c))
             time_ser == IF HasColumn(work, "time")
                         THEN _detect_and_normalize_time_series(Column(work, "time"))
                         ELSE Ok(<<>>)
         IN IF ~time_ser.ok THEN time_ser
            ELSE IF missing # <<>> THEN RaiseWith("MissingColumnsError", missing)
            ELSE CoerceValues(work, drop_incomplete, indicators)

normalize(df, drop_incomplete, indicators) ==
    IF df = None THEN RaiseWith("ValueError", "normalize: df must not be None")
    ELSE IF Empty(df) THEN Ok(Table(REQUIRED_COLUMNS, <<>>))
    ELSE LET renamed == Table(_canonicalize_columns(df.cols), df.rows)
             work == _collapse_duplicate_columns(renamed)
             missing == SelectSeq(REQUIRED_COLUMNS, LAMBDA c : ~HasColumn(work, c))
         IN IF missing # <<>> THEN RaiseWith("MissingColumnsError", missing)
            ELSE CoerceValues(work, drop_incomplete, indicators)

(***************************************************************************)
(* core.py: deduplicate, merge_frames                                      *)
(***************************************************************************)
\* df.drop_duplicates(subset=["time"], keep=...) keeping the other end of each run
drop_duplicates_other_end(df, keep) ==
    LET n == Len(df.rows)
        time == Column(df, "time")
    IN IF keep = "first"
       THEN TakeRows(df, Positions(n, LAMBDA i : \A j \in (i + 1)..n : time[j] # time[i]))
       ELSE TakeRows(df, Positions(n, LAMBDA i : \A j \in 1..(i - 1) : time[j] # time[i]))

\* df.drop_duplicates(subset=["time"], keep=False): every row of a repeated time goes
drop_duplicates_keep_none(df, keep) ==
    LET n == Len(df.rows)
        time == Column(df, "time")
    IN TakeRows(df, Positions(n, LAMBDA i : \A j \in 1..n : j = i \/ time[j] # time[i]))

\* df.drop_duplicates(subset=["time"], keep=keep).reset_index(drop=True):
\* null times count as equal to each other
drop_duplicates(df, keep) ==
    LET n == Len(df.rows)
        time == Column(df, "time")
    IN IF keep = "last"
       THEN TakeRows(df, Positions(n, LAMBDA i : \A j \in (i + 1)..n : time[j] # time[i]))
       ELSE TakeRows(df, Positions(n, LAMBDA i : \A j \in 1..(i - 1) : time[j] # time[i]))

\* groupby("time")["volume"].idxmax() taking the last row of each group, whatever
\* its volume
idxmax_last_of_group(df) ==
    LET n == Len(df.rows)
        time == Column(df, "time")
    IN Positions(n, LAMBDA i : ~IsNA(time[i]) /\ \A j \in (i + 1)..n : time[j] # time[i])

\* df.groupby("time")["volume"].idxmax() followed by dropna() and, after df.loc,
\* sort_index(): the positions of the rows kept, ascending
idxmax_by_time(df) ==
    LET n == Len(df.rows)
        time == Column(df, "time")
        volume == Column(df, "volume")
        \* groupby leaves out null keys, idxmax skips null values
        Counts(i) == ~IsNA(time[i]) /\ ~IsNA(volume[i])
        \* idxmax: the first row holding the group's maximum
        IsIdxMax(i) ==
            /\ Counts(i)
            /\ \A j \in 1..n :
                 (Counts(j) /\ time[j] = time[i]) =>
                     /\ ~CellLess(volume[i], volume[j])
                     /\ j < i => CellLess(volume[j], volume[i])
    IN Positions(n, IsIdxMax)

\* deduplicate treating a strategy it does not know as last
deduplicate_defaults_to_last(df, strategy) ==
    IF df = None THEN RaiseWith("ValueError", "deduplicate: df must not be None")
    ELSE IF Empty(df) THEN Ok(df)
    ELSE IF ~HasColumn(df, "time")
    THEN RaiseWith("MissingColumnsError", "time required for deduplication")
    ELSE IF strategy = "first" THEN Ok(drop_duplicates(df, "first"))
    ELSE IF strategy = "max_volume"
    THEN IF ~HasColumn(df, "volume") THEN RaiseWith("KeyError", "volume")
         ELSE Ok(TakeRows(df, idxmax_by_time(df)))
    ELSE Ok(drop_duplicates(df, "last"))

\* deduplicate answering max_volume with the last row of each time
deduplicate_max_volume_as_last(df, strategy) ==
    IF df = None THEN RaiseWith("ValueError", "deduplicate: df must not be None")
    ELSE IF Empty(df) THEN Ok(df)
    ELSE IF ~HasColumn(df, "time")
    THEN RaiseWith("MissingColumnsError", "time required for deduplication")
    ELSE IF strategy = "last" THEN Ok(drop_duplicates(df, "last"))
    ELSE IF strategy = "first" THEN Ok(drop_duplicates(df, "first"))
    ELSE IF strategy = "max_volume" THEN Ok(drop_duplicates(df, "last"))
    ELSE RaiseWith("ValueError", strategy)

deduplicate(df, strategy) ==
    IF df = None THEN RaiseWith("ValueError", "deduplicate: df must not be None")
    ELSE IF Empty(df) THEN Ok(df)
    ELSE IF ~HasColumn(df, "time")
    THEN RaiseWith("MissingColumnsError", "time required for deduplication")
    ELSE IF strategy = "last" THEN Ok(drop_duplicates(df, "last"))
    ELSE IF strategy = "first" THEN Ok(drop_duplicates(df, "first"))
    ELSE IF strategy = "max_volume"
    THEN IF ~HasColumn(df, "volume") THEN RaiseWith("KeyError", "volume")
         ELSE Ok(TakeRows(df, idxmax_by_time(df)))
    ELSE RaiseWith("ValueError", strategy)

RECURSIVE Flatten(_)
Flatten(seqs) == IF seqs = <<>> THEN <<>> ELSE Head(seqs) \o Flatten(Tail(seqs))

\* pd.concat taking the frames in the reverse of the input order
concat_reversed(dfs) ==
    LET back == [i \in DOMAIN dfs |-> dfs[Len(dfs) + 1 - i]]
        names == Flatten([i \in DOMAIN back |-> back[i].cols])
        firsts == Positions(Len(names), LAMBDA i : \A j \in 1..(i - 1) : names[j] # names[i])
        cols == [g \in DOMAIN firsts |-> names[firsts[g]]]
        Widened(df) ==
            [r \in DOMAIN df.rows |->
                [g \in DOMAIN cols |->
                    IF HasColumn(df, cols[g]) THEN df.rows[r][IndexOf(df.cols, cols[g])]
                    ELSE NA]]
    IN Table(cols, Flatten([i \in DOMAIN back |-> Widened(back[i])]))

\* pd.concat(dfs, ignore_index=True): the union of the columns in order of first
\* appearance, the rows in order, a column a frame lacks filled with nulls
Concat(dfs) ==
    LET names == Flatten([i \in DOMAIN dfs |-> dfs[i].cols])
        firsts == Positions(Len(names), LAMBDA i : \A j \in 1..(i - 1) : names[j] # names[i])
        cols == [g \in DOMAIN firsts |-> names[firsts[g]]]
        Widened(df) ==
            [r \in DOMAIN df.rows |->
                [g \in DOMAIN cols |->
                    IF HasColumn(df, cols[g]) THEN df.rows[r][IndexOf(df.cols, cols[g])]
                    ELSE NA]]
    IN Table(cols, Flatten([i \in DOMAIN dfs |-> Widened(dfs[i])]))

\* sort_values left out: the rows stay in the order deduplicate returned them
sort_values_skipped(df, asc) == df

\* df.sort_values("time", ascending=asc): nulls last in either direction
SortByTime(df, asc) ==
    LET t == IndexOf(df.cols, "time")
        Before(a, b) ==
            IF IsNA(a[t]) THEN FALSE
            ELSE IF IsNA(b[t]) THEN TRUE
            ELSE IF asc THEN CellLess(a[t], b[t]) ELSE CellLess(b[t], a[t])
    IN [df EXCEPT !.rows = SortBy(df.rows, Before)]

\* every normalized source is kept, the ones without rows too
frames_kept_when_empty(norm) == [i \in DOMAIN norm |-> norm[i].val]

\* lines 252-253: dfs, the normalized sources that are not empty
NonEmptyFrames(norm) ==
    LET kept == SelectSeq(norm, LAMBDA x : ~Empty(x.val))
    IN [i \in DOMAIN kept |-> kept[i].val]

\* merge_frames that concatenates the sources as they are and normalizes the
\* concatenation, so that the unit of the times is decided once for all sources
merge_normalizes_concatenated(frames, dedupe_strategy, drop_incomplete, sort_order, indicators) ==
    LET given == SelectSeq(frames, LAMBDA item : item # None /\ ~Empty(item))
        norm == normalize(Concat(given), drop_incomplete, indicators)
        deduped == deduplicate(norm.val, dedupe_strategy)
    IN IF given = <<>> THEN Ok(Table(REQUIRED_COLUMNS, <<>>))
       ELSE IF ~norm.ok THEN norm
       ELSE IF Empty(norm.val) THEN Ok(Table(REQUIRED_COLUMNS, <<>>))
       ELSE IF ~deduped.ok THEN deduped
       ELSE Ok(SortByTime(deduped.val, sort_order = "asc"))

\* merge_frames comparing sort_order with "asc" without regard to case
merge_reads_order_without_case(frames, dedupe_strategy, drop_incomplete, sort_order, indicators) ==
    LET given == SelectSeq(frames, LAMBDA item : item # None)
        asc == sort_order \in {"asc", "ASC"}
        \* lines 261-265
        Sorted(deduped) ==
            IF ~deduped.ok THEN deduped
            ELSE IF HasColumn(deduped.val, "time") /\ ~Empty(deduped.val)
            THEN Ok(SortByTime(deduped.val, asc))
            ELSE deduped
        \* line 259
        Deduped(combined) == Once(deduplicate(combined, dedupe_strategy), Sorted)
        \* lines 252-258, norm holding the result of normalize for each item
        Merged(norm) ==
            LET failed == { i \in DOMAIN given : ~norm[i].ok }
            IN IF failed # {} THEN norm[CHOOSE i \in failed : \A j \in failed : i <= j]
               ELSE LET dfs == NonEmptyFrames(norm)
                    IN IF dfs = <<>> THEN Ok(Table(REQUIRED_COLUMNS, <<>>))
                       ELSE Once(Concat(dfs), Deduped)
    IN Once([i \in DOMAIN given |-> normalize(given[i], drop_incomplete, indicators)],
            Merged)

merge_frames(frames, dedupe_strategy, drop_incomplete, sort_order, indicators) ==
    LET given == SelectSeq(frames, LAMBDA item : item # None)
        asc == sort_order = "asc"
        \* lines 261-265
        Sorted(deduped) ==
            IF ~deduped.ok THEN deduped
            ELSE IF HasColumn(deduped.val, "time") /\ ~Empty(deduped.val)
            THEN Ok(SortByTime(deduped.val, asc))
            ELSE deduped
        \* line 259
        Deduped(combined) == Once(deduplicate(combined, dedupe_strategy), Sorted)
        \* lines 252-258, norm holding the result of normalize for each item
        Merged(norm) ==
            LET failed == { i \in DOMAIN given : ~norm[i].ok }
            IN IF failed # {} THEN norm[CHOOSE i \in failed : \A j \in failed : i <= j]
               ELSE LET dfs == NonEmptyFrames(norm)
                    IN IF dfs = <<>> THEN Ok(Table(REQUIRED_COLUMNS, <<>>))
                       ELSE Once(Concat(dfs), Deduped)
    IN Once([i \in DOMAIN given |-> normalize(given[i], drop_incomplete, indicators)],
            Merged)

(***************************************************************************)
(* core.py: summarize                                                      *)
(***************************************************************************)
\* int(x) of a number that is not negative
IntOf(cell) == [cell EXCEPT !.half = 0]

\* series.duplicated(keep=False).sum(): every row whose value occurs more than once
duplicated_keep_false(series) ==
    Cardinality({ r \in DOMAIN series : \E j \in DOMAIN series : j # r /\ series[j] = series[r] })

\* series.duplicated().sum(): the rows whose value stands in an earlier row
\* too, nulls being equal to one another
Duplicated(series) ==
    Cardinality({ r \in DOMAIN series : \E j \in 1..(r - 1) : series[j] = series[r] })

\* series.min() / series.max(), nulls skipped
SeriesMin(series) ==
    LET valued == { series[r] : r \in { q \in DOMAIN series : ~IsNA(series[q]) } }
    IN CHOOSE c \in valued : \A d \in valued : ~CellLess(d, c)

SeriesMax(series) ==
    LET valued == { series[r] : r \in { q \in DOMAIN series : ~IsNA(series[q]) } }
    IN CHOOSE c \in valued : \A d \in valued : ~CellLess(c, d)

summarize(df) ==
    IF df = None \/ Empty(df)
    THEN [rows |-> 0, start_time |-> None, end_time |-> None, duplicates |-> 0]
    ELSE LET timed == HasColumn(df, "time") /\ \E r \in DOMAIN df.rows : ~IsNA(Column(df, "time")[r])
         IN [rows |-> Len(df.rows),
             start_time |-> IF timed THEN IntOf(SeriesMin(Column(df, "time"))) ELSE None,
             end_time |-> IF timed THEN IntOf(SeriesMax(Column(df, "time"))) ELSE None,
             duplicates |-> IF HasColumn(df, "time") THEN Duplicated(Column(df, "time")) ELSE 0]

(***************************************************************************)
(* Calls of align_into_window                                              *)
(***************************************************************************)
\* no call of core.py is in progress
CoreIdle ==
    /\ nargs = None /\ nret = None /\ nret2 = None
    /\ dargs = None /\ dret = None
    /\ margs = None /\ mret = None
    /\ sargs = None /\ sret = None /\ sret2 = None

\* no extraction has run and the output directory is empty
ExtractIdle ==
    /\ files = {}
    /\ xargs = None /\ xret = None

\* no call of timeutils.py is in progress
TimeIdle ==
    /\ zoneinfo = TRUE
    /\ targs = None /\ tret = None
    /\ aargs = None /\ aret = None
    /\ pargs = None /\ pret = None

MaxDays == 2

AlignStarts == {0, 1728838800}

AlignSpans == {-3600, 0, 1, 50400, 86399, 86400, 86401, 172800}

AlignOffsets == {-1, 0, 1, 30600, 86399}

AlignInputs ==
    { [ts |-> s + k * SECONDS_PER_DAY + o, start_ts |-> s, end_ts |-> s + w] :
        s \in AlignStarts, w \in AlignSpans, o \in AlignOffsets, k \in (-MaxDays)..MaxDays }

InitAlign ==
    /\ pc = "ready"
    /\ zoneinfo = TRUE
    /\ targs = None /\ tret = None
    /\ aargs \in AlignInputs
    /\ aret = None
    /\ pargs = None /\ pret = None
    /\ CoreIdle
    /\ ExtractIdle

CallAlignIntoWindow ==
    /\ pc = "ready"
    /\ aargs # None
    /\ aret' = Some(align_into_window(aargs.ts, aargs.start_ts, aargs.end_ts))
    /\ pc' = "align_into_window"
    /\ UNCHANGED <<zoneinfo, targs, tret, aargs, pargs, pret, coreVars, extractVars>>

NextAlign == CallAlignIntoWindow

SpecAlign == InitAlign /\ [][NextAlign]_vars

(***************************************************************************)
(* Calls of window_start_end and to_timestamp                              *)
(***************************************************************************)
Dates ==
    { <<10, 13, 24>>, <<10, 13, 2024>>, <<12, 31, 24>>, <<2, 28, 24>>, <<2, 28, 25>>,
      <<3, 9, 24>>, <<3, 10, 24>>, <<11, 2, 24>>, <<11, 3, 24>>,
      <<12, 29, 11>>, <<12, 30, 11>>, <<12, 31, 11>>,
      <<2, 30, 24>>, <<10, 13>> }

Times ==
    { <<0, 0>>, <<1, 30>>, <<2, 30>>, <<7, 0>>, <<17, 0>>, <<23, 59>>, <<24, 0>>, <<7>> }

TzNames ==
    { None, Some("UTC"), Some("America/Chicago"), Some("Pacific/Apia"), Some("Mars/Phobos") }

Folds == { None, Some(0), Some(1) }

InitWindow ==
    /\ pc = "ready"
    /\ zoneinfo \in BOOLEAN
    /\ targs \in [date_str : Dates, start_time : Times, end_time : Times, tz : TzNames]
    /\ tret = None
    /\ aargs = None /\ aret = None
    /\ pargs = None /\ pret = None
    /\ CoreIdle
    /\ ExtractIdle

CallWindowStartEnd ==
    /\ pc = "ready"
    /\ targs # None
    /\ \E ms \in BOOLEAN :
         tret' = [to_ms |-> ms, fold |-> None,
                  out |-> window_start_end(targs.date_str, targs.start_time,
                                           targs.end_time, targs.tz, ms, zoneinfo)]
    /\ pc' = "window_start_end"
    /\ UNCHANGED <<zoneinfo, targs, aargs, aret, pargs, pret, coreVars, extractVars>>

CallToTimestamp ==
    /\ pc = "ready"
    /\ targs # None
    /\ \E ms \in BOOLEAN, fold \in Folds :
         tret' = [to_ms |-> ms, fold |-> fold,
                  out |-> to_timestamp(targs.date_str, targs.start_time,
                                       targs.tz, ms, fold, zoneinfo)]
    /\ pc' = "to_timestamp"
    /\ UNCHANGED <<zoneinfo, targs, aargs, aret, pargs, pret, coreVars, extractVars>>

NextWindow == CallWindowStartEnd \/ CallToTimestamp

SpecWindow == InitWindow /\ [][NextWindow]_vars


(***************************************************************************)
(* Calls of lines_to_timestamp_records                                     *)
(***************************************************************************)
MaxLines == 2

PatternDates == { <<10, 13, 24>>, <<3, 9, 24>>, <<11, 2, 24>>, <<12, 30, 11>>, <<2, 30, 24>> }

PatternTimes == { <<1, 30>>, <<7, 0>>, <<17, 0>>, <<19, 30>>, <<23, 30>>, <<24, 0>> }

PatternRows ==
    [date : PatternDates, start : PatternTimes, entry : PatternTimes,
     exit : PatternTimes, end : PatternTimes]

RowLine(r) == [kind |-> "row", row |-> r]

OtherLine(k) == [kind |-> k, row |-> HeaderRow]

\* the rows that the longer files are made of
FewRows ==
    { [date |-> <<10, 13, 24>>, start |-> <<17, 0>>, entry |-> <<19, 30>>,
       exit |-> <<1, 30>>, end |-> <<7, 0>>],
      [date |-> <<3, 9, 24>>, start |-> <<1, 30>>, entry |-> <<7, 0>>,
       exit |-> <<17, 0>>, end |-> <<19, 30>>],
      [date |-> <<2, 30, 24>>, start |-> <<17, 0>>, entry |-> <<19, 30>>,
       exit |-> <<23, 30>>, end |-> <<7, 0>>] }

FewLines == { RowLine(r) : r \in FewRows } \cup { OtherLine(k) : k \in {"blank", "header", "short"} }

PatternFiles ==
    { << RowLine(r) >> : r \in PatternRows }
        \cup UNION { [1..n -> FewLines] : n \in {0} \cup 2..MaxLines }

PatternZones == { Some("UTC"), DEFAULT_TZ, Some("Pacific/Apia") }

InitPipeline ==
    /\ pc = "ready"
    /\ zoneinfo = TRUE
    /\ targs = None /\ tret = None
    /\ aargs = None /\ aret = None
    /\ pargs \in [lines : PatternFiles, tz : PatternZones]
    /\ pret = None
    /\ CoreIdle
    /\ ExtractIdle

CallLinesToTimestampRecords ==
    /\ pc = "ready"
    /\ pargs # None
    /\ pret' = Some(lines_to_timestamp_records(pargs.lines, pargs.tz, zoneinfo))
    /\ pc' = "lines_to_timestamp_records"
    /\ UNCHANGED <<zoneinfo, targs, tret, aargs, aret, pargs, coreVars, extractVars>>

NextPipeline == CallLinesToTimestampRecords

SpecPipeline == InitPipeline /\ [][NextPipeline]_vars

(***************************************************************************)
(* Properties of lines_to_timestamp_records                                *)
(***************************************************************************)
PipelineReturned == pc = "lines_to_timestamp_records" /\ pret # None /\ pret[1].ok

RefOrdered(rec) == rec.start <= rec.entry /\ rec.entry <= rec.exit /\ rec.exit <= rec.end

\* the row that record i was made of
RefRowOf(i) == _iter_rows(pargs.lines)[i].val

RefMinutes(hm) == hm[1] * 60 + hm[2]

\* time of day x lies in the wall-clock span from s to e, which runs over
\* midnight when e is not after s
RefInSpan(x, s, e) == IF e > s THEN s <= x /\ x <= e ELSE x >= s \/ x <= e

\* minutes from the start of the span to time of day x
RefPos(x, s) == IF x >= s THEN x - s ELSE x + 1440 - s

\* the zone has one UTC offset at the row's four times of day on the row's
\* date and on the day after
RefOneOffset(row, tz) ==
    LET zone == _tzinfo_for_name(tz, zoneinfo).val
        d == _parse_date(row.date).val
        offsets == { UtcOffset(zone, WallSeconds(d, _parse_time(t).val, plus), 0) :
                        t \in {row.start, row.entry, row.exit, row.end}, plus \in {0, 1} }
    IN Cardinality(offsets) = 1

\* C19 as stated: every record that lines_to_timestamp_records returns has
\* start <= entry <= exit <= end.
C19_EveryRecordOrdered ==
    PipelineReturned => \A i \in DOMAIN pret[1].val : RefOrdered(pret[1].val[i])

\* C19, amended: a returned record has start <= entry <= exit <= end when the
\* entry and exit times of day both lie in the window's wall-clock span (over
\* midnight when end is not after start), the entry is not after the exit in
\* that span, and the zone keeps one UTC offset over the row's times on the
\* date and the day after.
C19_OrderedWhenTimesFitWindow ==
    PipelineReturned =>
        \A i \in DOMAIN pret[1].val :
            LET row == RefRowOf(i)
                s == RefMinutes(row.start)
                e == RefMinutes(row.end)
                x == RefMinutes(row.entry)
                y == RefMinutes(row.exit)
            IN (/\ RefInSpan(x, s, e)
                /\ RefInSpan(y, s, e)
                /\ RefPos(x, s) <= RefPos(y, s)
                /\ RefOneOffset(row, pargs.tz))
               => RefOrdered(pret[1].val[i])

\* the overnight window 17:00-07:00 of 10/13/24 in UTC: the exit at 01:30 is
\* moved one day forward, behind the entry at 19:30
C19_WitnessExitMovedForward ==
    /\ PipelineReturned
    /\ pargs.tz = Some("UTC")
    /\ pargs.lines = << RowLine([date |-> <<10, 13, 24>>, start |-> <<17, 0>>,
                                 entry |-> <<19, 30>>, exit |-> <<1, 30>>,
                                 end |-> <<7, 0>>]) >>
    /\ pret[1].val[1].exit = 1728869400
    /\ RefOrdered(pret[1].val[1])

(***************************************************************************)
(* Properties of align_into_window                                         *)
(***************************************************************************)
\* the smallest k >= 0 for which P(k) holds, searched up to `top`
SmallestK(P(_), top) == CHOOSE k \in 0..top : P(k) /\ \A j \in 0..(k - 1) : ~P(j)

RefAlign(ts, s, e) ==
    IF s <= ts /\ ts <= e THEN ts
    ELSE IF ts < s
    THEN LET Reaches(k) == ts + k * 86400 >= s
             k == SmallestK(Reaches, (s - ts) \div 86400 + 1)
         IN IF ts + k * 86400 <= e THEN ts + k * 86400 ELSE ts
    ELSE LET Reaches(k) == ts - k * 86400 <= e
             k == SmallestK(Reaches, (ts - e) \div 86400 + 1)
         IN IF ts - k * 86400 >= s THEN ts - k * 86400 ELSE ts

Aligned == pc = "align_into_window"

\* C1: for start_ts <= end_ts, align_into_window returns ts when it is inside
\* the window, otherwise ts moved by the smallest number of whole days that
\* brings it to the near side of the window if that lands inside the window,
\* and ts unchanged if it does not.
C1_AlignMatchesReference ==
    (Aligned /\ aargs.start_ts <= aargs.end_ts)
        => aret[1] = RefAlign(aargs.ts, aargs.start_ts, aargs.end_ts)

C1_Witness ==
    /\ Aligned
    /\ aargs.start_ts <= aargs.end_ts
    /\ aargs.ts < aargs.start_ts
    /\ aret[1] = aargs.ts + 2 * SECONDS_PER_DAY

\* C17: for start_ts <= end_ts the result r of align_into_window is ts or lies
\* in [start_ts, end_ts]; r - ts is a whole multiple of 86400; and r is ts
\* when ts already lies in the window.
C17_ResultInWindowOrUnchanged ==
    (Aligned /\ aargs.start_ts <= aargs.end_ts) =>
        LET r == aret[1]
        IN /\ r = aargs.ts \/ (aargs.start_ts <= r /\ r <= aargs.end_ts)
           /\ (r - aargs.ts) % 86400 = 0
           /\ (aargs.start_ts <= aargs.ts /\ aargs.ts <= aargs.end_ts) => r = aargs.ts

\* a timestamp one day after the window is moved back by one day
C17_WitnessMovedBack ==
    /\ Aligned
    /\ aargs.start_ts <= aargs.end_ts
    /\ aargs.ts > aargs.end_ts
    /\ aret[1] = aargs.ts - SECONDS_PER_DAY
    /\ aargs.start_ts <= aret[1] /\ aret[1] <= aargs.end_ts

\* C18 as stated: a timestamp outside the window is moved only by exactly
\* +86400 or -86400; one that needs two or more days is returned unchanged.
C18_OnlySingleDayShift ==
    (Aligned /\ aargs.start_ts <= aargs.end_ts /\ aret[1] # aargs.ts)
        => aret[1] \in { aargs.ts + 86400, aargs.ts - 86400 }

\* k is the smallest number of days that takes ts to or past the near end
RefReachesIn(k) ==
    IF aargs.ts < aargs.start_ts
    THEN aargs.ts + k * 86400 >= aargs.start_ts /\ aargs.ts + (k - 1) * 86400 < aargs.start_ts
    ELSE aargs.ts - k * 86400 <= aargs.end_ts /\ aargs.ts - (k - 1) * 86400 > aargs.end_ts

RefShifted(k) ==
    IF aargs.ts < aargs.start_ts THEN aargs.ts + k * 86400 ELSE aargs.ts - k * 86400

\* C18 (amended): a timestamp outside the window is moved by the smallest
\* number k >= 1 of whole days that takes it to or past the near end of the
\* window, for k = 1 and for k >= 2 alike, when that lands inside the window;
\* it is returned unchanged only when that shift lands beyond the far end.
C18_SmallestShiftOfAnyDays ==
    (/\ Aligned
     /\ aargs.start_ts <= aargs.end_ts
     /\ aargs.ts < aargs.start_ts \/ aargs.ts > aargs.end_ts) =>
        \E k \in 1..(MaxDays + 2) :
            /\ RefReachesIn(k)
            /\ IF aargs.start_ts <= RefShifted(k) /\ RefShifted(k) <= aargs.end_ts
               THEN aret[1] = RefShifted(k)
               ELSE aret[1] = aargs.ts

\* a timestamp two days after the window is moved back by two days
C18_WitnessTwoDaysBack ==
    /\ Aligned
    /\ aargs.start_ts <= aargs.end_ts
    /\ aargs.ts > aargs.end_ts
    /\ aret[1] = aargs.ts - 2 * SECONDS_PER_DAY

RefAbs(n) == IF n < 0 THEN 0 - n ELSE n

\* the numbers of days k for which ts + k * 86400 lies in the window; the
\* arguments of the calls keep ts within MaxDays + 1 days of the window
RefDaysIntoWindow ==
    { k \in (0 - (MaxDays + 3))..(MaxDays + 3) :
        /\ aargs.start_ts <= aargs.ts + k * 86400
        /\ aargs.ts + k * 86400 <= aargs.end_ts }

\* C27: for start_ts <= end_ts, if some whole number of days moves ts into the
\* window, the result lies in the window and is ts moved by the such number
\* of least magnitude; that is the case for every ts when the window spans
\* 86399 seconds or more; and aligning the result again returns it unchanged.
C27_AlignsWheneverPossible ==
    (Aligned /\ aargs.start_ts <= aargs.end_ts) =>
        /\ RefDaysIntoWindow # {} =>
              /\ aargs.start_ts <= aret[1] /\ aret[1] <= aargs.end_ts
              /\ \E k \in RefDaysIntoWindow :
                    /\ aret[1] = aargs.ts + k * 86400
                    /\ \A j \in RefDaysIntoWindow : RefAbs(k) <= RefAbs(j)
        /\ aargs.end_ts - aargs.start_ts >= 86399 =>
              aargs.start_ts <= aret[1] /\ aret[1] <= aargs.end_ts
        /\ align_into_window(aret[1], aargs.start_ts, aargs.end_ts) = aret[1]

\* a window of 86399 seconds and a ts two days and a second before it: three
\* days forward, onto the end of the window
C27_WitnessThreeDaysForward ==
    /\ Aligned
    /\ aargs.end_ts - aargs.start_ts = 86399
    /\ aargs.ts = aargs.start_ts - 172801
    /\ aret[1] = aargs.end_ts
    /\ align_into_window(aret[1], aargs.start_ts, aargs.end_ts) = aret[1]

(***************************************************************************)
(* Properties of window_start_end                                          *)
(***************************************************************************)
WindowReturned == pc = "window_start_end" /\ tret.out.ok

WinStart == tret.out.val.start_ts

WinEnd == tret.out.val.end_ts

\* C2: every window that window_start_end returns has end_ts > start_ts.
C2_EndAfterStart ==
    WindowReturned =>
        IF tret.to_ms THEN BigLess(WinStart, WinEnd) ELSE WinStart < WinEnd

\* Days from 1970-01-01 to a date, counted year by year and month by month
RECURSIVE RefDaysToYear(_)
RefDaysToYear(y) ==
    IF y <= 1970 THEN 0 ELSE RefDaysToYear(y - 1) + (IF IsLeap(y - 1) THEN 366 ELSE 365)

RECURSIVE RefDaysToMonth(_, _)
RefDaysToMonth(y, m) ==
    IF m <= 1 THEN 0
    ELSE RefDaysToMonth(y, m - 1)
           + (CASE m - 1 \in {1, 3, 5, 7, 8, 10, 12} -> 31
                [] m - 1 \in {4, 6, 9, 11} -> 30
                [] OTHER -> IF IsLeap(y) THEN 29 ELSE 28)

RefYear(date_str) == IF date_str[3] < 100 THEN 2000 + date_str[3] ELSE date_str[3]

\* epoch seconds of a UTC date and time of day
RefUtcEpoch(y, m, d, time_str) ==
    (RefDaysToYear(y) + RefDaysToMonth(y, m) + d - 1) * 86400
        + time_str[1] * 3600 + time_str[2] * 60

RefUtcEpochNextDay(y, m, d, time_str) ==
    IF RefDaysToMonth(y, m + 1) - RefDaysToMonth(y, m) > d
    THEN RefUtcEpoch(y, m, d + 1, time_str)
    ELSE IF m < 12 THEN RefUtcEpoch(y, m + 1, 1, time_str)
    ELSE RefUtcEpoch(y + 1, 1, 1, time_str)

ValidInputs ==
    /\ Len(targs.date_str) = 3
    /\ targs.date_str[1] \in 1..12
    /\ targs.date_str[2] >= 1
    /\ targs.date_str[2] <=
         RefDaysToMonth(RefYear(targs.date_str), targs.date_str[1] + 1)
           - RefDaysToMonth(RefYear(targs.date_str), targs.date_str[1])
    /\ \A t \in {targs.start_time, targs.end_time} :
         Len(t) = 2 /\ t[1] \in 0..23 /\ t[2] \in 0..59

InUtc == targs.tz \in {None, Some("UTC")}

\* C3: in UTC, start_ts is the epoch of the start time on the date; end_ts is
\* the epoch of the end time on the same date when that is after start_ts, and
\* otherwise the epoch of the end time on the next calendar day, which is the
\* same-date value plus 86400, across month and year ends too.
C3_UtcWindowEndpoints ==
    (pc = "window_start_end" /\ InUtc /\ ValidInputs /\ ~tret.to_ms) =>
        LET y == RefYear(targs.date_str)
            m == targs.date_str[1]
            d == targs.date_str[2]
            s == RefUtcEpoch(y, m, d, targs.start_time)
            e == RefUtcEpoch(y, m, d, targs.end_time)
        IN /\ tret.out.ok
           /\ WinStart = s
           /\ WinEnd = (IF e > s THEN e ELSE RefUtcEpochNextDay(y, m, d, targs.end_time))
           /\ e <= s => WinEnd = e + 86400
           /\ (targs.date_str = <<10, 13, 24>> /\ targs.start_time = <<17, 0>>
                 /\ targs.end_time = <<7, 0>>)
                => (WinStart = 1728838800 /\ WinEnd = 1728889200)

C3_WitnessYearEnd ==
    /\ WindowReturned /\ InUtc /\ ~tret.to_ms
    /\ targs.date_str = <<12, 31, 24>>
    /\ targs.start_time = <<17, 0>> /\ targs.end_time = <<17, 0>>
    /\ WinEnd = 1735750800      \* 2025-01-01T17:00:00Z

\* length of the returned window, in seconds
WinSeconds ==
    IF tret.to_ms
    THEN LET diff == BigSub(WinEnd, WinStart) IN (diff.hi * Limb + diff.lo) \div 1000
    ELSE WinEnd - WinStart

WinLengthInUnit ==
    IF tret.to_ms THEN BigSub(WinEnd, WinStart) ELSE WinEnd - WinStart

FullDayInUnit == IF tret.to_ms THEN BigOfInt(86400000) ELSE 86400

OffsetsOfFullDay ==
    LET zone == _tzinfo_for_name(targs.tz, zoneinfo).val
        ymd == _parse_date(targs.date_str).val
        hm == _parse_time(targs.start_time).val
    IN [first |-> UtcOffset(zone, WallSeconds(ymd, hm, 0), 0),
        next |-> UtcOffset(zone, WallSeconds(ymd, hm, 1), 0)]

CalendarCalled == pc \in {"window_start_end", "to_timestamp"}

\* the start timestamp the call returned
RefStartReturned == IF pc = "to_timestamp" THEN tret.out.val ELSE WinStart

\* the start time on the date read as UTC, in the unit the call returns
RefStartInUtc ==
    LET utc == RefUtcEpoch(RefYear(targs.date_str), targs.date_str[1], targs.date_str[2],
                           targs.start_time)
    IN IF tret.to_ms THEN BigTimes1000(utc) ELSE utc

RefUtcBased == tret.out.ok /\ RefStartReturned = RefStartInUtc

RefKnownNames == { Some(name) : name \in DOMAIN TzDatabase }

\* C22: 'UTC' and an absent name resolve to UTC; with the timezone database
\* available a name it does not hold fails with ValueError and a name it holds
\* resolves to that zone, not to UTC; without the database every name gives
\* the UTC timestamp.
C22_NoSilentUtcFallback ==
    CalendarCalled =>
        /\ (zoneinfo /\ ~InUtc /\ targs.tz \notin RefKnownNames) =>
              ~tret.out.ok /\ tret.out.err = "ValueError"
        /\ ValidInputs =>
              /\ InUtc => RefUtcBased
              /\ ~zoneinfo => RefUtcBased
              /\ (zoneinfo /\ targs.tz \in RefKnownNames) =>
                    tret.out.ok /\ RefStartReturned # RefStartInUtc

\* to_timestamp('10/13/24', '17:00', tz='Mars/Phobos') with the database at hand
C22_WitnessUnknownName ==
    /\ pc = "to_timestamp"
    /\ zoneinfo
    /\ targs.tz = Some("Mars/Phobos")
    /\ targs.date_str = <<10, 13, 24>> /\ targs.start_time = <<17, 0>>
    /\ ~tret.out.ok /\ tret.out.err = "ValueError"

\* the same call without the database: the UTC timestamp
C22_WitnessNoDatabase ==
    /\ pc = "to_timestamp"
    /\ ~zoneinfo /\ ~tret.to_ms
    /\ targs.tz = Some("Mars/Phobos")
    /\ targs.date_str = <<10, 13, 24>> /\ targs.start_time = <<17, 0>>
    /\ tret.out = Ok(1728838800)

(***************************************************************************)
(* Calls of normalize                                                      *)
(***************************************************************************)
MaxRows == 3

SeqsUpTo(S, n) == UNION { [1..k -> S] : k \in 0..n }

\* 1736722800000 and 1736722860000 (milliseconds), 10^12 and 10^12 + 1,
\* 1736722800000000 (microseconds), 100.5
TimeCells ==
    { NA, Str, Num(100), NumStr(200),
      NumBig(1736722, 800000), NumBig(1736722, 860000),
      NumBig(1000000, 0), NumBig(1000000, 1),
      NumBig(1736722800, 0), NumAndHalf(100) }

\* the cell of row r in a column other than time: "complete" rows hold a value
\* in every column, "gaps" rows 1, 2 and 4 lack open or volume, "halves" holds
\* a volume with a fractional part; a second volume column and a Date column
\* hold other values than the column they double, or none
CellFor(col, r, profile) ==
    CASE col \in {"open", "O"} ->
            IF profile = "gaps" /\ r = 1 THEN NA ELSE Num(10 * r)
      [] col \in {"high", "H"} -> Num(10 * r + 2)
      [] col \in {"low", "L"} -> Num(10 * r - 1)
      [] col \in {"close", "C"} -> NumStr(10 * r + 1)
      [] col \in {"volume", "Vol"} ->
            IF profile = "gaps" /\ r = 2 THEN Str
            ELSE IF profile = "gaps" /\ r = 4 THEN NA
            ELSE IF profile = "halves" /\ r = 1 THEN NumAndHalf(1)
            ELSE Num(r)
      [] col \in {"Volume", " Volume "} ->
            IF profile = "gaps" THEN (IF r = 1 THEN Str ELSE NA)
            ELSE IF r = 1 THEN NA ELSE IF r = 2 THEN Num(7) ELSE Str
      [] col = "Date" -> IF r = 2 THEN NA ELSE Num(160)
      [] col \in {"EMA", "ema"} -> IF r % 2 = 1 THEN NumStr(50) ELSE Str
      [] col \in {"rsi", "RSI"} -> IF r = 2 THEN NA ELSE NumStr(70)
      [] OTHER -> NumStr(70)

BuildTable(cols, times, profile) ==
    Table(cols,
          [r \in DOMAIN times |->
              [i \in DOMAIN cols |->
                  IF cols[i] \in {"time", "Time", "Timestamp", "t"} THEN times[r]
                  ELSE CellFor(cols[i], r, profile)]])

Layouts ==
    { <<"Timestamp", "O", "H", "L", "C", "Vol">>,
      <<"time", "open", "high", "low", "close", "Volume", "volume">>,
      <<"Time", "Date", "open", "high", "low", "close", " Volume ">>,
      <<"time", "open", "high", "low", "close", "volume", "EMA", "rsi">>,
      <<"time">>,
      <<"open", "high", "low", "close", "volume">>,
      <<>> }

CanonicalTables ==
    { BuildTable(REQUIRED_COLUMNS, times, profile) :
        times \in SeqsUpTo(TimeCells, MaxRows), profile \in {"complete", "gaps"} }

LayoutTables ==
    { BuildTable(cols, times, profile) :
        cols \in Layouts,
        times \in SeqsUpTo({NA, Num(100), NumBig(1736722, 800000)}, 2),
        profile \in {"complete", "gaps"} }
      \cup { BuildTable(REQUIRED_COLUMNS, <<Num(100), Num(160)>>, "halves") }
      \cup { BuildTable(cols, <<NumAndHalf(100), Str>>, "halves") :
                cols \in { <<"time">>, <<"Time", "O", "Vol">>,
                           <<"open", "high", "low", "close", "volume">> } }

IndicatorArgs == { None, Some(<<"rsi", "vwap">>) }

NormalizeArgs ==
    { [df |-> df, drop_incomplete |-> d, indicators |-> None] :
        df \in CanonicalTables \cup {None}, d \in BOOLEAN }
      \cup { [df |-> df, drop_incomplete |-> d, indicators |-> ind] :
               df \in LayoutTables, d \in BOOLEAN, ind \in IndicatorArgs }

InitNormalize ==
    /\ pc = "ready"
    /\ TimeIdle
    /\ ExtractIdle
    /\ sargs = None /\ sret = None /\ sret2 = None
    /\ nargs \in NormalizeArgs
    /\ nret = None /\ nret2 = None
    /\ dargs = None /\ dret = None
    /\ margs = None /\ mret = None

CallNormalize ==
    /\ pc = "ready"
    /\ nargs # None
    /\ nret' = normalize(nargs.df, nargs.drop_incomplete, nargs.indicators)
    /\ pc' = "normalize"
    /\ UNCHANGED <<timeVars, nargs, nret2, dargs, dret, margs, mret, sargs, sret, sret2, extractVars>>

\* normalize applied to the table that normalize returned, same options
CallNormalizeAgain ==
    /\ pc = "normalize"
    /\ nret.ok
    /\ nret2' = normalize(nret.val, nargs.drop_incomplete, nargs.indicators)
    /\ pc' = "normalize_again"
    /\ UNCHANGED <<timeVars, nargs, nret, dargs, dret, margs, mret, sargs, sret, sret2, extractVars>>

NextNormalize == CallNormalize \/ CallNormalizeAgain

SpecNormalize == InitNormalize /\ [][NextNormalize]_vars


(***************************************************************************)
(* Properties of normalize                                                 *)
(***************************************************************************)
\* the k-th smallest of a sequence of numbers, by counting
RefKth(cells, k) ==
    CHOOSE x \in Range(cells) :
        /\ Cardinality({ i \in DOMAIN cells : CellLess(cells[i], x) }) < k
        /\ Cardinality({ i \in DOMAIN cells : ~CellLess(x, cells[i]) }) >= k

RefIsNumber(c) == c.k \in {"num", "numstr"}

RefTenToThe12 == [k |-> "num", hi |-> 10^6, lo |-> 0, half |-> 0]

\* the median of the numbers among `cells` is strictly greater than 10^12
RefMedianAboveTenToThe12(cells) ==
    LET numbers == SelectSeq(cells, RefIsNumber)
        n == Len(numbers)
        mid == RefKth(numbers, (n + 1) \div 2)
        lower == RefKth(numbers, n \div 2)
        upper == RefKth(numbers, n \div 2 + 1)
        short == BigSub(RefTenToThe12, lower)
        over == BigSub(upper, RefTenToThe12)
    IN IF n = 0 THEN FALSE
       ELSE IF n % 2 = 1 THEN CellLess(RefTenToThe12, mid)
       ELSE BigLess(short, over) \/ (short = over /\ lower.half + upper.half > 0)

\* q is the whole number floor(v / 1000): 1000 * q <= v < 1000 * q + 1000
RefIsFloorDiv1000(q, v) ==
    LET timesThousand == Big(q.hi * 1000 + (q.lo * 1000) \div Limb, (q.lo * 1000) % Limb)
        rest == BigSub(v, timesThousand)
    IN q.k = "num" /\ q.half = 0 /\ rest.hi = 0 /\ rest.lo \in 0..999

\* every one of the six required cells of the row spells a number
RefComplete(df, r) ==
    \A c \in Range(REQUIRED_COLUMNS) : RefIsNumber(df.rows[r][IndexOf(df.cols, c)])

RefSameNumber(a, b) == a.hi = b.hi /\ a.lo = b.lo /\ a.half = b.half

NormalizeReturned == pc \in {"normalize", "normalize_again"} /\ nret.ok

HasSixCanonical(df) ==
    df # None /\ \A c \in Range(REQUIRED_COLUMNS) : c \in Range(df.cols)

\* C5 as stated: for any table with the six canonical columns, normalizing the
\* normalized table gives the normalized table again (rows, values, columns).
C5_NormalizeIdempotent ==
    (pc = "normalize_again" /\ HasSixCanonical(nargs.df)) => nret2 = nret

\* C5 (amended): normalizing the table normalize returned gives that table
\* again, provided the returned table's time median is not above 10^12 and the
\* returned table has a row or has no column beyond the six canonical ones.
C5_IdempotentOnSecondsTables ==
    (/\ pc = "normalize_again"
     /\ HasSixCanonical(nargs.df)
     /\ ~RefMedianAboveTenToThe12(Column(nret.val, "time"))
     /\ (Len(nret.val.rows) > 0 \/ Range(nret.val.cols) = Range(REQUIRED_COLUMNS)))
        => nret2 = nret

C5_WitnessMsTableTwice ==
    /\ pc = "normalize_again"
    /\ nargs.df.cols = REQUIRED_COLUMNS
    /\ Column(nargs.df, "time") = <<NumBig(1736722, 800000), NumBig(1736722, 860000)>>
    /\ Column(nret.val, "time") = <<Num(1736722800), Num(1736722860)>>
    /\ nret2 = nret

\* the positions of the input rows that normalize keeps
RefKeptRows(df, drop_incomplete) ==
    Positions(Len(df.rows), LAMBDA r : ~drop_incomplete \/ RefComplete(df, r))

\* C6: the unit is decided once per table from the median of the numeric time
\* values: above 10^12 every time becomes floor(v / 1000), otherwise (10^12
\* included) every time is kept; 1736722800000 and 1736722860000 become
\* 1736722800 and 1736722860.
C6_UnitDecidedOncePerTable ==
    (/\ NormalizeReturned
     /\ nargs.df # None
     /\ nargs.df.cols = REQUIRED_COLUMNS /\ Len(nargs.df.rows) > 0) =>
        LET before == Column(nargs.df, "time")
            after == Column(nret.val, "time")
            kept == RefKeptRows(nargs.df, nargs.drop_incomplete)
            millis == RefMedianAboveTenToThe12(before)
        IN /\ Len(after) = Len(kept)
           /\ \A p \in DOMAIN kept :
                LET v == before[kept[p]]
                IN IF ~RefIsNumber(v) THEN IsNA(after[p])
                   ELSE IF millis THEN RefIsFloorDiv1000(after[p], v)
                   ELSE after[p].k = "num" /\ RefSameNumber(after[p], v)
           /\ (before = <<NumBig(1736722, 800000), NumBig(1736722, 860000)>>
                 /\ Len(kept) = 2)
                => after = <<Num(1736722800), Num(1736722860)>>
           /\ (before = <<RefTenToThe12>> /\ Len(kept) = 1) => after = <<RefTenToThe12>>

\* a seconds value in a table whose median is in milliseconds is divided too
C6_WitnessMixedTable ==
    /\ pc = "normalize" /\ nret.ok
    /\ nargs.df.cols = REQUIRED_COLUMNS
    /\ Column(nargs.df, "time")
         = <<Num(100), NumBig(1736722, 800000), NumBig(1736722, 860000)>>
    /\ Column(nret.val, "time") = <<Num(0), Num(1736722800), Num(1736722860)>>

\* the table has the six required columns after canonicalization
RefHasRequired(df) ==
    \A c \in Range(REQUIRED_COLUMNS) : c \in Range(_canonicalize_columns(df.cols))

\* C7: with drop_incomplete = false, normalize of a non-empty table that has
\* the six required columns does not fail, keeps every row, and turns each
\* missing or non-numeric required value into a null.
C7_KeepsEveryRow ==
    (/\ pc = "normalize"
     /\ nargs.df # None
     /\ ~nargs.drop_incomplete
     /\ ~Empty(nargs.df)
     /\ RefHasRequired(nargs.df)) =>
        /\ nret.ok
        /\ Len(nret.val.rows) = Len(nargs.df.rows)
        /\ nargs.df.cols = REQUIRED_COLUMNS =>
             \A r \in DOMAIN nargs.df.rows : \A i \in DOMAIN REQUIRED_COLUMNS :
                 ~RefIsNumber(nargs.df.rows[r][i]) => IsNA(nret.val.rows[r][i])


\* the required columns the table lacks after its names are made canonical,
\* in the order of REQUIRED_COLUMNS
RefMissing(df) ==
    SelectSeq(REQUIRED_COLUMNS, LAMBDA c : c \notin Range(_canonicalize_columns(df.cols)))

\* C13: normalize looks at its input in this order: an absent table fails with
\* ValueError; an empty table gives an empty table with the six canonical
\* columns; a table with rows that lacks a required column after
\* canonicalization fails with MissingColumnsError naming every missing
\* column, whatever its values are.
C13_InputChecksInOrder ==
    pc = "normalize" =>
        /\ nargs.df = None => ~nret.ok /\ nret.err = "ValueError"
        /\ (nargs.df # None /\ Empty(nargs.df)) =>
              nret.ok /\ nret.val.cols = REQUIRED_COLUMNS /\ nret.val.rows = <<>>
        /\ (nargs.df # None /\ ~Empty(nargs.df) /\ RefMissing(nargs.df) # <<>>) =>
              /\ ~nret.ok
              /\ nret.err = "MissingColumnsError"
              /\ nret.val = RefMissing(nargs.df)
              /\ nargs.df.cols = <<"time">>
                    => nret.val = <<"open", "high", "low", "close", "volume">>

\* a table with only a time column whose first value, 100.5, would fail the
\* integer cast: the missing columns are reported, not the value
C13_WitnessOnlyTime ==
    /\ pc = "normalize"
    /\ nargs.df # None
    /\ nargs.df.cols = <<"time">>
    /\ Column(nargs.df, "time") = <<NumAndHalf(100), Str>>
    /\ nret = RaiseWith("MissingColumnsError", <<"open", "high", "low", "close", "volume">>)

\* the positions, left to right, of the input columns that stand for name c
RefSources(df, c) ==
    Positions(Len(df.cols), LAMBDA i : _canonicalize_columns(df.cols)[i] = c)

\* the leftmost non-null cell of the row among the columns at `at`, null if none
RefLeftmost(row, at) ==
    IF \A q \in DOMAIN at : IsNA(row[at[q]]) THEN NA
    ELSE row[at[CHOOSE q \in DOMAIN at :
                  ~IsNA(row[at[q]]) /\ \A o \in 1..(q - 1) : IsNA(row[at[o]])]]

\* the required names that two or more input columns stand for
RefDoubled(df) == { c \in Range(REQUIRED_COLUMNS) : Len(RefSources(df, c)) >= 2 }

\* normalize returned a table for an input with rows whose single close column
\* tells the rows apart
CollapsedReturned ==
    /\ pc = "normalize" /\ nret.ok
    /\ nargs.df # None /\ ~Empty(nargs.df)
    /\ Len(RefSources(nargs.df, "close")) = 1

\* the input row that row p of the returned table comes from
RefInputRow(p) ==
    LET close == RefSources(nargs.df, "close")[1]
    IN CHOOSE r \in DOMAIN nargs.df.rows :
          RefSameNumber(nargs.df.rows[r][close], Column(nret.val, "close")[p])

\* y is the number x, or for a time possibly floor(x / 1000)
RefKeepsNumber(c, y, x) ==
    y.k = "num" /\ (RefSameNumber(y, x) \/ (c = "time" /\ RefIsFloorDiv1000(y, x)))

\* C15 as stated: when several input columns stand for one name, normalize
\* keeps one column of that name; in each row its value is that of the
\* leftmost of those columns that is non-null in the row, and it is null only
\* if all of them are null in the row.
C15_LeftmostNonNull ==
    CollapsedReturned =>
        \A c \in RefDoubled(nargs.df) :
            /\ Cardinality({ i \in DOMAIN nret.val.cols : nret.val.cols[i] = c }) = 1
            /\ \A p \in DOMAIN nret.val.rows :
                 LET x == RefLeftmost(nargs.df.rows[RefInputRow(p)], RefSources(nargs.df, c))
                     y == Column(nret.val, c)[p]
                 IN IF IsNA(x) THEN IsNA(y) ELSE RefKeepsNumber(c, y, x)

\* C15 (amended): the kept column holds, in each row, the leftmost non-null
\* value after the coercion of that column: null when all are null and also
\* when that leftmost value is not numeric, whatever stands to its right.
C15_LeftmostThenCoerced ==
    CollapsedReturned =>
        \A c \in RefDoubled(nargs.df) :
            /\ Cardinality({ i \in DOMAIN nret.val.cols : nret.val.cols[i] = c }) = 1
            /\ \A p \in DOMAIN nret.val.rows :
                 LET x == RefLeftmost(nargs.df.rows[RefInputRow(p)], RefSources(nargs.df, c))
                     y == Column(nret.val, c)[p]
                 IN IF RefIsNumber(x) THEN RefKeepsNumber(c, y, x) ELSE IsNA(y)

\* Volume holds null, 7 and volume holds 1, 2: the kept column holds 1, 7
C15_WitnessVolumeTwice ==
    /\ CollapsedReturned
    /\ nargs.df.cols = <<"time", "open", "high", "low", "close", "Volume", "volume">>
    /\ Len(nargs.df.rows) = 2
    /\ [r \in 1..2 |-> nargs.df.rows[r][6]] = <<NA, Num(7)>>
    /\ [r \in 1..2 |-> nargs.df.rows[r][7]] = <<Num(1), Num(2)>>
    /\ Column(nret.val, "volume") = <<Num(1), Num(7)>>

\* the six required values of input row r are numbers, so non-null once coerced
RefCompleteRow(df, r) ==
    \A c \in Range(REQUIRED_COLUMNS) :
        RefIsNumber(RefLeftmost(df.rows[r], RefSources(df, c)))

\* C16: with drop_incomplete = true, normalize returns exactly the input rows
\* whose six required values are non-null after coercion, in input order,
\* whatever their indicator and other extra columns hold; with
\* drop_incomplete = false it returns every row.
C16_DropsExactlyIncompleteRows ==
    (/\ pc = "normalize" /\ nret.ok
     /\ nargs.df # None /\ ~Empty(nargs.df)) =>
        LET df == nargs.df
            kept == Positions(Len(df.rows),
                        LAMBDA r : ~nargs.drop_incomplete \/ RefCompleteRow(df, r))
        IN /\ Len(nret.val.rows) = Len(kept)
           /\ \A p \in DOMAIN kept : \A c \in Range(REQUIRED_COLUMNS) :
                LET x == RefLeftmost(df.rows[kept[p]], RefSources(df, c))
                    y == Column(nret.val, c)[p]
                IN IF RefIsNumber(x) THEN RefKeepsNumber(c, y, x) ELSE IsNA(y)

\* row 1 has no time and is removed; row 2 is complete and stays although its
\* EMA is not a number and its rsi is null
C16_WitnessExtraColumnsIgnored ==
    /\ pc = "normalize" /\ nret.ok
    /\ nargs.drop_incomplete
    /\ nargs.df # None
    /\ nargs.df.cols = <<"time", "open", "high", "low", "close", "volume", "EMA", "rsi">>
    /\ Len(nargs.df.rows) = 2
    /\ Column(nargs.df, "time") = <<NA, Num(100)>>
    /\ Column(nargs.df, "EMA")[2] = Str
    /\ IsNA(Column(nargs.df, "rsi")[2])
    /\ Column(nargs.df, "volume") = <<Num(1), Num(2)>>
    /\ Column(nret.val, "close") = <<Num(21)>>

\* C29: the unit of the times is decided from the median of all numeric times
\* of the input, before incomplete rows are removed: with drop_incomplete = true
\* the times of the rows that stay are divided by 1000 exactly when that median
\* is above 10^12, whatever the median of the rows that stay is.
C29_UnitDecidedBeforeRowsDropped ==
    (/\ pc = "normalize" /\ nret.ok
     /\ nargs.df # None
     /\ nargs.drop_incomplete
     /\ nargs.df.cols = REQUIRED_COLUMNS /\ Len(nargs.df.rows) > 0) =>
        LET before == Column(nargs.df, "time")
            after == Column(nret.val, "time")
            kept == Positions(Len(nargs.df.rows), LAMBDA r : RefComplete(nargs.df, r))
            millis == RefMedianAboveTenToThe12(before)
        IN /\ Len(after) = Len(kept)
           /\ \A p \in DOMAIN kept :
                IF millis THEN RefIsFloorDiv1000(after[p], before[kept[p]])
                ELSE after[p].k = "num" /\ RefSameNumber(after[p], before[kept[p]])

\* rows 1 and 2 hold millisecond times and are incomplete; row 3 holds 100 and
\* stays: the median of all times is above 10^12, so 100 becomes 0
C29_WitnessDroppedRowsDecide ==
    /\ pc = "normalize" /\ nret.ok
    /\ nargs.df # None
    /\ nargs.drop_incomplete
    /\ nargs.df.cols = REQUIRED_COLUMNS
    /\ Column(nargs.df, "time") =
          <<NumBig(1736722, 800000), NumBig(1736722, 860000), Num(100)>>
    /\ ~RefComplete(nargs.df, 1) /\ ~RefComplete(nargs.df, 2) /\ RefComplete(nargs.df, 3)
    /\ ~RefMedianAboveTenToThe12(<<Num(100)>>)
    /\ Column(nret.val, "time") = <<Num(0)>>

\* rows 1 and 2 hold 100 and are incomplete; row 3 holds 1736722800000 and
\* stays: the median of all times is 100, so the time is not divided
C29_WitnessMillisecondsKept ==
    /\ pc = "normalize" /\ nret.ok
    /\ nargs.df # None
    /\ nargs.drop_incomplete
    /\ nargs.df.cols = REQUIRED_COLUMNS
    /\ Column(nargs.df, "time") = <<Num(100), Num(100), NumBig(1736722, 800000)>>
    /\ ~RefComplete(nargs.df, 1) /\ ~RefComplete(nargs.df, 2) /\ RefComplete(nargs.df, 3)
    /\ RefMedianAboveTenToThe12(<<NumBig(1736722, 800000)>>)
    /\ Column(nret.val, "time") = <<NumBig(1736722, 800000)>>

(***************************************************************************)
(* Calls of deduplicate                                                    *)
(***************************************************************************)
DedupeTimes == { NA, Num(100), Num(200), Num(300) }

DedupeVolumes == { NA, Num(1), Num(2) }

\* row r of a table handed to deduplicate: its close value tells the rows apart
DedupeRow(r, time, volume) ==
    <<time, Num(10 * r), Num(10 * r + 2), Num(10 * r - 1), Num(10 * r + 1), volume>>

DedupeTables ==
    { Table(REQUIRED_COLUMNS, [r \in DOMAIN cells |-> DedupeRow(r, cells[r].t, cells[r].v)]) :
        cells \in SeqsUpTo([t : DedupeTimes, v : DedupeVolumes], MaxRows) }
      \cup { None,
             Table(<<"open", "volume">>, <<<<Num(10), Num(1)>>, <<Num(10), Num(1)>>>>),
             Table(<<"time", "close">>, <<<<Num(100), Num(11)>>, <<Num(100), Num(21)>>>>) }

Strategies == { "last", "first", "max_volume", "newest", "bogus" }

InitDedupe ==
    /\ pc = "ready"
    /\ TimeIdle
    /\ ExtractIdle
    /\ sargs = None /\ sret = None /\ sret2 = None
    /\ nargs = None /\ nret = None /\ nret2 = None
    /\ dargs \in [df : DedupeTables, strategy : Strategies]
    /\ dret = None
    /\ margs = None /\ mret = None

CallDeduplicate ==
    /\ pc = "ready"
    /\ dargs # None
    /\ dret' = deduplicate(dargs.df, dargs.strategy)
    /\ pc' = "deduplicate"
    /\ UNCHANGED <<timeVars, nargs, nret, nret2, dargs, margs, mret, sargs, sret, sret2, extractVars>>

NextDedupe == CallDeduplicate

SpecDedupe == InitDedupe /\ [][NextDedupe]_vars

(***************************************************************************)
(* Properties of deduplicate                                               *)
(***************************************************************************)
\* deduplicate was called with strategy last or first on a table with a time column
DedupedByEnd ==
    /\ pc = "deduplicate"
    /\ dargs.strategy \in {"last", "first"}
    /\ dargs.df # None
    /\ HasColumn(dargs.df, "time")

\* the largest (strategy last) or smallest (strategy first) member of a set of positions
RefEnd(S, strategy) ==
    IF strategy = "last" THEN CHOOSE i \in S : \A j \in S : j <= i
    ELSE CHOOSE i \in S : \A j \in S : i <= j

\* C10: with strategy last (first), deduplicate returns for every distinct time
\* of the input exactly one row, the last (first) input row with that time, and
\* the surviving rows stand in their input order, not sorted by time.
C10_OneRowPerTimeInInputOrder ==
    DedupedByEnd =>
        /\ dret.ok
        /\ dret.val.cols = dargs.df.cols
        /\ LET input == dargs.df.rows
               output == dret.val.rows
               t == IndexOf(dargs.df.cols, "time")
               With(rows, time) == { i \in DOMAIN rows : rows[i][t] = time }
               From(p) == CHOOSE i \in DOMAIN input : input[i] = output[p]
           IN /\ \A i \in DOMAIN input :
                    /\ Cardinality(With(output, input[i][t])) = 1
                    /\ \E p \in DOMAIN output :
                         output[p] = input[RefEnd(With(input, input[i][t]), dargs.strategy)]
              /\ \A p \in DOMAIN output : \E i \in DOMAIN input : input[i] = output[p]
              /\ \A p, q \in DOMAIN output : p < q => From(p) < From(q)

\* times 300, 100, 300 under strategy first: rows 1 and 2 survive, 300 before 100
C10_WitnessUnsortedSurvivors ==
    /\ DedupedByEnd
    /\ dargs.strategy = "first"
    /\ Column(dargs.df, "time") = <<Num(300), Num(100), Num(300)>>
    /\ dret.ok
    /\ Column(dret.val, "time") = <<Num(300), Num(100)>>
    /\ Column(dret.val, "close") = <<Num(11), Num(21)>>


\* deduplicate was called with strategy max_volume on a table with time and volume
DedupedByVolume ==
    /\ pc = "deduplicate"
    /\ dargs.strategy = "max_volume"
    /\ dargs.df # None
    /\ HasColumn(dargs.df, "time") /\ HasColumn(dargs.df, "volume")

\* C11: with strategy max_volume, deduplicate returns at most one row per
\* distinct time, a row whose volume is the largest of the non-null volumes of
\* its time; a row with a null volume never wins over a row with a volume, a
\* time whose volumes are all null gives no row and no error, and the
\* survivors stand in their input order.
C11_MaxVolumePerTime ==
    DedupedByVolume =>
        /\ dret.ok
        /\ dret.val.cols = dargs.df.cols
        /\ LET input == dargs.df.rows
               output == dret.val.rows
               t == IndexOf(dargs.df.cols, "time")
               v == IndexOf(dargs.df.cols, "volume")
               With(rows, time) == { i \in DOMAIN rows : rows[i][t] = time }
               Valued(time) == { i \in With(input, time) : ~IsNA(input[i][v]) }
               From(p) == CHOOSE i \in DOMAIN input : input[i] = output[p]
           IN /\ \A i \in DOMAIN input :
                    LET time == input[i][t]
                    IN /\ Cardinality(With(output, time)) <= 1
                       /\ (~IsNA(time) /\ Valued(time) # {})
                            => Cardinality(With(output, time)) = 1
                       /\ Valued(time) = {} => With(output, time) = {}
              /\ \A p \in DOMAIN output :
                    /\ \E i \in DOMAIN input : input[i] = output[p]
                    /\ ~IsNA(output[p][v])
                    /\ \A j \in Valued(output[p][t]) : ~CellLess(output[p][v], input[j][v])
              /\ \A p, q \in DOMAIN output : p < q => From(p) < From(q)

\* times 100, 100, 200 with volumes null, 2, null: only the second row is kept
C11_WitnessNullVolumes ==
    /\ DedupedByVolume
    /\ Column(dargs.df, "time") = <<Num(100), Num(100), Num(200)>>
    /\ Column(dargs.df, "volume") = <<NA, Num(2), NA>>
    /\ dret.ok
    /\ Column(dret.val, "close") = <<Num(21)>>

\* deduplicate was called on a table with a strategy it does not know
DedupedUnknown ==
    /\ pc = "deduplicate"
    /\ dargs.df # None
    /\ dargs.strategy \notin {"last", "first", "max_volume"}

RefUnknownStrategyError ==
    /\ ~dret.ok
    /\ dret.err = "ValueError"
    /\ dret.val = dargs.strategy

\* C12 as stated: for every table, the empty one included, deduplicate with a
\* strategy other than last, first and max_volume fails with a ValueError that
\* names the strategy.
C12_UnknownStrategyFailsOnEveryTable ==
    DedupedUnknown => RefUnknownStrategyError

\* C12 (amended): for every table with at least one row and a time column,
\* deduplicate with an unknown strategy fails with a ValueError naming the
\* strategy; an empty table is returned unchanged, and a table with rows but
\* no time column fails with MissingColumnsError, whatever the strategy.
C12_UnknownStrategyFailsOnRows ==
    /\ (DedupedUnknown /\ ~Empty(dargs.df) /\ HasColumn(dargs.df, "time"))
          => RefUnknownStrategyError
    /\ (pc = "deduplicate" /\ dargs.df # None /\ Empty(dargs.df))
          => dret = Ok(dargs.df)
    /\ (pc = "deduplicate" /\ dargs.df # None /\ ~Empty(dargs.df)
          /\ ~HasColumn(dargs.df, "time"))
          => ~dret.ok /\ dret.err = "MissingColumnsError"

C12_WitnessBogus ==
    /\ DedupedUnknown
    /\ dargs.strategy = "bogus"
    /\ HasColumn(dargs.df, "time")
    /\ Column(dargs.df, "time") = <<Num(100), Num(100)>>
    /\ RefUnknownStrategyError

(***************************************************************************)
(* Calls of merge_frames                                                   *)
(***************************************************************************)
MaxFrames == 3

\* source number id: the close value of a row tells the source and the row
MergeTable(id, cols, times, volumes) ==
    Table(cols,
          [r \in DOMAIN times |->
              [i \in DOMAIN cols |->
                  CASE cols[i] \in {"time", "Timestamp"} -> times[r]
                    [] cols[i] \in {"open", "O"} -> Num(10)
                    [] cols[i] \in {"high", "H"} -> Num(12)
                    [] cols[i] \in {"low", "L"} -> Num(9)
                    [] cols[i] \in {"close", "C"} -> Num(100 * id + r)
                    [] cols[i] \in {"volume", "Vol"} -> volumes[r]
                    [] OTHER -> NumStr(50)]])

\* the three tables of test_merge_frames_with_dataframes_and_sorting, a source
\* in milliseconds, a source in seconds that shares a second with it, a source
\* with incomplete rows, alias column names and an EMA column, a source without
\* a numeric time that has an ema column, a source without rows
MergeSources ==
    { None,
      MergeTable(1, REQUIRED_COLUMNS, <<Num(4000)>>, <<Num(5)>>),
      MergeTable(2, REQUIRED_COLUMNS, <<Num(3940), Num(4000)>>, <<Num(1), Num(9)>>),
      MergeTable(3, REQUIRED_COLUMNS, <<Num(4060)>>, <<Num(2)>>),
      MergeTable(4, REQUIRED_COLUMNS,
                 <<NumBig(1736722, 860000), NumBig(1736722, 800000)>>, <<Num(4), Num(4)>>),
      MergeTable(5, REQUIRED_COLUMNS, <<Num(1736722860), Num(4000)>>, <<Num(3), Num(5)>>),
      MergeTable(6, <<"Timestamp", "O", "H", "L", "C", "Vol", "EMA">>,
                 <<NA, Num(4000), Num(3940), Num(3940)>>, <<Num(1), NA, Num(3), Num(3)>>),
      MergeTable(7, REQUIRED_COLUMNS \o <<"ema">>, <<Str>>, <<Num(1)>>),
      Table(<<"time", "EMA">>, <<>>) }

SortOrders == { "asc", "desc", "ASC" }

\* the lists of up to MaxFrames sources, each source at most once in a list
FrameLists ==
    { frames \in SeqsUpTo(MergeSources, MaxFrames) :
        \A i, j \in DOMAIN frames : i < j => frames[i] # frames[j] }

InitMerge ==
    /\ pc = "ready"
    /\ TimeIdle
    /\ ExtractIdle
    /\ sargs = None /\ sret = None /\ sret2 = None
    /\ nargs = None /\ nret = None /\ nret2 = None
    /\ dargs = None /\ dret = None
    /\ margs \in [frames : FrameLists,
                  dedupe_strategy : {"last", "first", "max_volume"},
                  drop_incomplete : BOOLEAN,
                  sort_order : SortOrders]
    /\ mret = None

CallMergeFrames ==
    /\ pc = "ready"
    /\ margs # None
    /\ mret' = merge_frames(margs.frames, margs.dedupe_strategy, margs.drop_incomplete,
                            margs.sort_order, None)
    /\ pc' = "merge_frames"
    /\ UNCHANGED <<timeVars, nargs, nret, nret2, dargs, dret, margs, sargs, sret, sret2, extractVars>>

NextMerge == CallMergeFrames

SpecMerge == InitMerge /\ [][NextMerge]_vars

(***************************************************************************)
(* Properties of merge_frames                                              *)
(***************************************************************************)
MergeReturned == pc = "merge_frames" /\ mret.ok

\* C8: with drop_incomplete = true and any of the three strategies, the time
\* column of the table merge_frames returns is strictly increasing for
\* sort_order asc and strictly decreasing for desc.
C8_TimesStrictlyMonotone ==
    (/\ MergeReturned
     /\ margs.drop_incomplete
     /\ margs.dedupe_strategy \in {"last", "first", "max_volume"}
     /\ margs.sort_order \in {"asc", "desc"}) =>
        LET time == Column(mret.val, "time")
        IN \A p, q \in DOMAIN time :
              p < q =>
                 /\ ~IsNA(time[p]) /\ ~IsNA(time[q])
                 /\ IF margs.sort_order = "asc" THEN CellLess(time[p], time[q])
                    ELSE CellLess(time[q], time[p])

\* tables with times [4000], [3940, 4000], [4060] under max_volume, asc
C8_WitnessThreeTables ==
    /\ MergeReturned
    /\ margs.drop_incomplete
    /\ margs.dedupe_strategy = "max_volume"
    /\ margs.sort_order = "asc"
    /\ Len(margs.frames) = 3
    /\ \A i \in 1..3 : margs.frames[i] # None /\ margs.frames[i].cols = REQUIRED_COLUMNS
    /\ Column(margs.frames[1], "time") = <<Num(4000)>>
    /\ Column(margs.frames[2], "time") = <<Num(3940), Num(4000)>>
    /\ Column(margs.frames[3], "time") = <<Num(4060)>>
    /\ Column(mret.val, "time") = <<Num(3940), Num(4000), Num(4060)>>

\* the sources of the call that are not null, each normalized on its own
RefNormalized ==
    LET given == SelectSeq(margs.frames, LAMBDA item : item # None)
    IN [i \in DOMAIN given |-> normalize(given[i], margs.drop_incomplete, None).val]

\* row `row` of the result is row r of the normalized source src, with nulls in
\* the columns that source does not have
RefIsRowOf(row, src, r) ==
    \A g \in DOMAIN mret.val.cols :
        row[g] = IF HasColumn(src, mret.val.cols[g])
                 THEN src.rows[r][IndexOf(src.cols, mret.val.cols[g])]
                 ELSE NA

\* C9: deduplication runs over the normalized sources concatenated in input
\* order: for a time found in several sources, last keeps the last row with
\* that time of the latest such source, first the first row of the earliest.
C9_DedupeInInputOrder ==
    (MergeReturned /\ margs.dedupe_strategy \in {"last", "first"}) =>
        LET srcs == RefNormalized
            result == mret.val
            Rows(i, time) == { r \in DOMAIN srcs[i].rows : Column(srcs[i], "time")[r] = time }
            Holders(time) == { i \in DOMAIN srcs : Rows(i, time) # {} }
        IN /\ \A i \in DOMAIN srcs : \A r \in DOMAIN srcs[i].rows :
                LET time == Column(srcs[i], "time")[r]
                    src == RefEnd(Holders(time), margs.dedupe_strategy)
                    at == RefEnd(Rows(src, time), margs.dedupe_strategy)
                    found == { p \in DOMAIN result.rows : Column(result, "time")[p] = time }
                IN ~IsNA(time) =>
                      /\ Cardinality(found) = 1
                      /\ \A p \in found : RefIsRowOf(result.rows[p], srcs[src], at)
           /\ \A p \in DOMAIN result.rows : Holders(Column(result, "time")[p]) # {}

\* second 4000 is in sources 1 and 2: given as <<2, 1>>, last keeps the row of 1
C9_WitnessLatestSourceWins ==
    /\ MergeReturned
    /\ margs.dedupe_strategy = "last"
    /\ margs.sort_order = "asc"
    /\ Len(margs.frames) = 2
    /\ \A i \in 1..2 : margs.frames[i] # None /\ margs.frames[i].cols = REQUIRED_COLUMNS
    /\ Column(margs.frames[1], "time") = <<Num(3940), Num(4000)>>
    /\ Column(margs.frames[1], "close") = <<Num(201), Num(202)>>
    /\ Column(margs.frames[2], "close") = <<Num(101)>>
    /\ Column(mret.val, "time") = <<Num(3940), Num(4000)>>
    /\ Column(mret.val, "close") = <<Num(201), Num(101)>>


\* normalize of each source of the call, as merge_frames calls it; a null
\* source is given the empty canonical table
RefNormOfEach ==
    [i \in DOMAIN margs.frames |->
        IF margs.frames[i] = None THEN Ok(Table(REQUIRED_COLUMNS, <<>>))
        ELSE normalize(margs.frames[i], margs.drop_incomplete, None)]

\* C20: merge_frames skips null sources and leaves out the sources that
\* normalize to zero rows, columns included; it fails only if normalize fails
\* on a source, and when no source contributes a row (an empty list of sources
\* included) it returns the table of the six canonical columns without rows.
C20_NullAndEmptySourcesLeftOut ==
    pc = "merge_frames" =>
        LET norm == RefNormOfEach
            contributing == { i \in DOMAIN norm : norm[i].ok /\ Len(norm[i].val.rows) > 0 }
        IN /\ mret.ok <=> \A i \in DOMAIN norm : norm[i].ok
           /\ (mret.ok /\ contributing = {}) => mret.val = Table(REQUIRED_COLUMNS, <<>>)
           /\ (mret.ok /\ contributing # {}) =>
                 /\ { mret.val.cols[g] : g \in DOMAIN mret.val.cols }
                       = UNION { { norm[i].val.cols[g] : g \in DOMAIN norm[i].val.cols } :
                                   i \in contributing }
                 /\ \A p \in DOMAIN mret.val.rows :
                       \E i \in contributing : \E r \in DOMAIN norm[i].val.rows :
                           RefIsRowOf(mret.val.rows[p], norm[i].val, r)

\* a null source, a source with an ema column whose only row is dropped, and
\* a table without rows: the result is the empty canonical table
C20_WitnessNothingContributes ==
    /\ MergeReturned
    /\ margs.drop_incomplete
    /\ Len(margs.frames) = 3
    /\ margs.frames[1] = None
    /\ margs.frames[2] # None
    /\ margs.frames[2].cols = REQUIRED_COLUMNS \o <<"ema">>
    /\ Len(margs.frames[2].rows) = 1
    /\ margs.frames[3] = Table(<<"time", "EMA">>, <<>>)
    /\ mret.val = Table(REQUIRED_COLUMNS, <<>>)

\* no sources at all
C20_WitnessNoSources ==
    MergeReturned /\ margs.frames = <<>> /\ mret.val = Table(REQUIRED_COLUMNS, <<>>)

\* the source in milliseconds and the source in seconds of MergeSources
RefMsSource ==
    MergeTable(4, REQUIRED_COLUMNS,
               <<NumBig(1736722, 860000), NumBig(1736722, 800000)>>, <<Num(4), Num(4)>>)

RefSecondsSource ==
    MergeTable(5, REQUIRED_COLUMNS, <<Num(1736722860), Num(4000)>>, <<Num(3), Num(5)>>)

RefPlaceOf(src) == CHOOSE i \in DOMAIN margs.frames : margs.frames[i] = src

\* C25: the unit of the times is decided for each source on its own: every
\* time of the merged table is in seconds, and when the source in milliseconds
\* and the source in seconds are merged, their rows for the second 1736722860
\* are duplicates of one another, of which the dedupe strategy keeps one.
C25_UnitDetectedPerSource ==
    MergeReturned =>
        LET time == Column(mret.val, "time")
            close == Column(mret.val, "close")
            found == { p \in DOMAIN time : time[p] = Num(1736722860) }
        IN /\ \A p \in DOMAIN time : ~IsNA(time[p]) => CellLess(time[p], RefTenToThe12)
           /\ ({RefMsSource, RefSecondsSource} \subseteq Range(margs.frames)) =>
                 /\ Cardinality(found) = 1
                 /\ \A p \in found :
                       close[p] =
                          CASE margs.dedupe_strategy = "last" ->
                                 IF RefPlaceOf(RefMsSource) > RefPlaceOf(RefSecondsSource)
                                 THEN Num(401) ELSE Num(501)
                            [] margs.dedupe_strategy = "first" ->
                                 IF RefPlaceOf(RefMsSource) < RefPlaceOf(RefSecondsSource)
                                 THEN Num(401) ELSE Num(501)
                            [] OTHER -> Num(401)

\* the two sources under strategy last: 4000, 1736722800 and 1736722860, the
\* last of them from the source in seconds
C25_WitnessMsAndSeconds ==
    /\ MergeReturned
    /\ margs.frames = << RefMsSource, RefSecondsSource >>
    /\ margs.dedupe_strategy = "last"
    /\ margs.sort_order = "asc"
    /\ Column(mret.val, "time") = << Num(4000), Num(1736722800), Num(1736722860) >>
    /\ Column(mret.val, "close") = << Num(502), Num(402), Num(501) >>

\* C26: with drop_incomplete = true and any of the three strategies the set
\* of times of the merged table is the union of the sets of times of the
\* normalized sources: no time of a complete row is lost and none is invented.
C26_TimesAreUnionOfSources ==
    (MergeReturned /\ margs.drop_incomplete) =>
        LET norm == RefNormOfEach
        IN Range(Column(mret.val, "time"))
              = UNION { Range(Column(norm[i].val, "time")) : i \in DOMAIN norm }

\* the sources with times [4000] and [4060] and the source with incomplete
\* rows, whose two rows of 3940 are complete and whose other rows are not
C26_WitnessIncompleteSource ==
    /\ MergeReturned
    /\ margs.drop_incomplete
    /\ margs.dedupe_strategy = "max_volume"
    /\ margs.sort_order = "desc"
    /\ Len(margs.frames) = 3
    /\ \A i \in 1..3 : margs.frames[i] # None /\ Len(margs.frames[i].rows) > 0
    /\ margs.frames[1].cols = REQUIRED_COLUMNS
    /\ Column(margs.frames[1], "time") = <<Num(4000)>>
    /\ margs.frames[2].cols = REQUIRED_COLUMNS
    /\ Column(margs.frames[2], "time") = <<Num(4060)>>
    /\ margs.frames[3].cols[1] = "Timestamp"
    /\ Column(mret.val, "time") = <<Num(4060), Num(4000), Num(3940)>>

\* C30: merge_frames rejects no sort_order: it fails only with the error that
\* normalize raised on a source, and in the table it returns the times ascend
\* when sort_order is "asc" and descend for every other string, "ASC" included
\* (null times, if any, come last).
C30_SortOrderNeverRejected ==
    pc = "merge_frames" =>
        LET norm == RefNormOfEach
        IN /\ ~mret.ok => \E i \in DOMAIN norm : ~norm[i].ok /\ mret = norm[i]
           /\ mret.ok =>
                 LET time == Column(mret.val, "time")
                 IN \A p, q \in DOMAIN time :
                       p < q =>
                          /\ IsNA(time[p]) => IsNA(time[q])
                          /\ (~IsNA(time[p]) /\ ~IsNA(time[q])) =>
                                IF margs.sort_order = "asc" THEN CellLess(time[p], time[q])
                                ELSE CellLess(time[q], time[p])

\* sort_order "ASC" on sources with times [3940, 4000] and [4060]: descending
C30_WitnessUpperCaseDescends ==
    /\ MergeReturned
    /\ margs.sort_order = "ASC"
    /\ Len(margs.frames) = 2
    /\ \A i \in 1..2 : margs.frames[i] # None /\ margs.frames[i].cols = REQUIRED_COLUMNS
    /\ Column(margs.frames[1], "time") = <<Num(3940), Num(4000)>>
    /\ Column(margs.frames[2], "time") = <<Num(4060)>>
    /\ Column(mret.val, "time") = <<Num(4060), Num(4000), Num(3940)>>

(***************************************************************************)
(* Calls of merge_frames on sources in any order                           *)
(***************************************************************************)
\* sources that share times with different and with equal volumes, sources
\* with an ema or a vwap column, a source whose columns stand in another
\* order, a source with an incomplete row
OrderSources ==
    { MergeTable(1, REQUIRED_COLUMNS, <<Num(4000), Num(4060)>>, <<Num(5), Num(2)>>),
      MergeTable(2, REQUIRED_COLUMNS, <<Num(4000)>>, <<Num(9)>>),
      MergeTable(3, REQUIRED_COLUMNS, <<Num(4060), NA>>, <<Num(2), Num(8)>>),
      MergeTable(4, REQUIRED_COLUMNS \o <<"ema">>, <<Num(3940)>>, <<Num(1)>>),
      MergeTable(5, REQUIRED_COLUMNS \o <<"vwap">>, <<Num(3940), Num(5000)>>, <<Num(3), Num(1)>>),
      MergeTable(6, <<"volume", "time", "open", "high", "low", "close">>,
                 <<Num(4000)>>, <<Num(7)>>),
      None }

InitMergeOrder ==
    /\ pc = "ready"
    /\ TimeIdle
    /\ ExtractIdle
    /\ sargs = None /\ sret = None /\ sret2 = None
    /\ nargs = None /\ nret = None /\ nret2 = None
    /\ dargs = None /\ dret = None
    /\ margs \in [frames : { frames \in SeqsUpTo(OrderSources, MaxFrames) :
                                \A i, j \in DOMAIN frames : i < j => frames[i] # frames[j] },
                  dedupe_strategy : {"last", "max_volume"},
                  drop_incomplete : BOOLEAN,
                  sort_order : {"asc", "desc"}]
    /\ mret = None

SpecMergeOrder == InitMergeOrder /\ [][NextMerge]_vars

\* the orders in which the sources of the call can be passed
RefOrders ==
    LET n == Len(margs.frames)
    IN { [i \in 1..n |-> margs.frames[f[i]]] :
           f \in { g \in [1..n -> 1..n] : \A i, j \in 1..n : i # j => g[i] # g[j] } }

RefMergeIn(frames) ==
    merge_frames(frames, margs.dedupe_strategy, margs.drop_incomplete, margs.sort_order, None)

\* no two rows of the normalized sources that share a time share the largest
\* volume of that time
RefNoTiedMaximum ==
    LET norm == RefNormOfEach
        entries == UNION { { <<i, r>> : r \in DOMAIN norm[i].val.rows } :
                              i \in { j \in DOMAIN norm : norm[j].ok } }
        TimeOf(x) == Column(norm[x[1]].val, "time")[x[2]]
        VolumeOf(x) == Column(norm[x[1]].val, "volume")[x[2]]
    IN \A x, y \in entries :
          (x # y /\ TimeOf(x) = TimeOf(y) /\ VolumeOf(x) = VolumeOf(y)) =>
              \E z \in entries : TimeOf(z) = TimeOf(x) /\ CellLess(VolumeOf(x), VolumeOf(z))

RefOrderPremise ==
    /\ MergeReturned
    /\ margs.dedupe_strategy = "max_volume"
    /\ margs.drop_incomplete
    /\ RefNoTiedMaximum

\* tables a and b have the same columns, in whatever order, and the same
\* rows column by column
RefSameUpToColumnOrder(a, b) ==
    /\ Range(a.cols) = Range(b.cols)
    /\ Len(a.rows) = Len(b.rows)
    /\ \A c \in Range(a.cols) : Column(a, c) = Column(b, c)

\* C28 as stated: under max_volume with drop_incomplete = true and no tied
\* maximal volume, merge_frames returns the same table for every order of its
\* sources.
C28_SameTableInEveryOrder ==
    RefOrderPremise => \A frames \in RefOrders : RefMergeIn(frames) = mret

\* C28, amended: under the same premise the tables returned for two orders of
\* the sources have the same rows in the same order and the same columns, but
\* the columns may stand in a different order (they follow the first source
\* that has them); the tables are equal when all sources that contribute rows
\* have the same columns in the same order.
C28_SameRowsInEveryOrder ==
    RefOrderPremise =>
        LET norm == RefNormOfEach
            layouts == { norm[i].val.cols : i \in { j \in DOMAIN norm : Len(norm[j].val.rows) > 0 } }
        IN \A frames \in RefOrders :
              LET other == RefMergeIn(frames)
              IN /\ other.ok
                 /\ RefSameUpToColumnOrder(other.val, mret.val)
                 /\ Cardinality(layouts) <= 1 => other = mret

\* the source with times 4000, 4060 and volumes 5, 2 and the source with time
\* 4000 and volume 9, in both orders: 4000 with volume 9, 4060 with volume 2
C28_WitnessLargerVolumeWins ==
    /\ RefOrderPremise
    /\ margs.sort_order = "asc"
    /\ Len(margs.frames) = 2
    /\ \A i \in 1..2 : margs.frames[i] # None /\ margs.frames[i].cols = REQUIRED_COLUMNS
    /\ Column(margs.frames[1], "volume") = <<Num(5), Num(2)>>
    /\ Column(margs.frames[2], "volume") = <<Num(9)>>
    /\ Column(mret.val, "time") = <<Num(4000), Num(4060)>>
    /\ Column(mret.val, "volume") = <<Num(9), Num(2)>>
    /\ \A frames \in RefOrders : RefMergeIn(frames) = mret

(***************************************************************************)
(* Calls of summarize                                                      *)
(***************************************************************************)
SummarizeTimes == DedupeTimes \cup { NumBig(1736722, 800000) }

\* tables with numeric or null times in any order, an absent table, tables
\* without rows, tables without a time column
SummarizeTables ==
    { Table(REQUIRED_COLUMNS, [r \in DOMAIN times |-> DedupeRow(r, times[r], Num(r))]) :
        times \in SeqsUpTo(SummarizeTimes, MaxRows) }
      \cup { None,
             Table(<<>>, <<>>),
             Table(<<"open", "volume">>, <<<<Num(10), Num(1)>>, <<Num(10), Num(1)>>>>) }

InitSummarize ==
    /\ pc = "ready"
    /\ TimeIdle
    /\ ExtractIdle
    /\ nargs = None /\ nret = None /\ nret2 = None
    /\ dargs = None /\ dret = None
    /\ margs = None /\ mret = None
    /\ sargs \in [df : SummarizeTables]
    /\ sret = None /\ sret2 = None

\* summarize reads df and assigns nothing to it
CallSummarize ==
    /\ pc = "ready"
    /\ sargs # None
    /\ sret' = Some(summarize(sargs.df))
    /\ pc' = "summarize"
    /\ UNCHANGED <<timeVars, nargs, nret, nret2, dargs, dret, margs, mret, sargs, sret2, extractVars>>

CallSummarizeAgain ==
    /\ pc = "summarize"
    /\ sret2' = Some(summarize(sargs.df))
    /\ pc' = "summarize_again"
    /\ UNCHANGED <<timeVars, nargs, nret, nret2, dargs, dret, margs, mret, sargs, sret, extractVars>>

NextSummarize == CallSummarize \/ CallSummarizeAgain

SpecSummarize == InitSummarize /\ [][NextSummarize]_vars

(***************************************************************************)
(* Properties of summarize                                                 *)
(***************************************************************************)
\* the values of the time column of the argument, nulls left out
RefTimeValues ==
    { c \in Range(Column(sargs.df, "time")) : ~IsNA(c) }

\* the number of distinct entries of the time column, null counting as one
RefDistinctEntries == Cardinality(Range(Column(sargs.df, "time")))

\* C21: summarize returns rows = the number of rows, start_time and end_time =
\* the least and the greatest time, duplicates = rows minus the number of
\* distinct time entries (a null time counting as one entry); for an absent
\* table or one without rows it returns 0, None, None, 0; a second call
\* returns the same summary and the table is the one that was passed.
C21_SummaryOfTable ==
    pc \in {"summarize", "summarize_again"} =>
        LET df == sargs.df
            out == sret[1]
        IN /\ (df = None \/ Len(df.rows) = 0) =>
                 out = [rows |-> 0, start_time |-> None, end_time |-> None, duplicates |-> 0]
           /\ (df # None /\ Len(df.rows) > 0 /\ HasColumn(df, "time")) =>
                 /\ out.rows = Len(df.rows)
                 /\ out.duplicates = out.rows - RefDistinctEntries
                 /\ IF RefTimeValues = {} THEN out.start_time = None /\ out.end_time = None
                    ELSE /\ out.start_time \in RefTimeValues
                         /\ out.end_time \in RefTimeValues
                         /\ \A c \in RefTimeValues :
                               ~CellLess(c, out.start_time) /\ ~CellLess(out.end_time, c)
           /\ (df # None /\ Len(df.rows) > 0 /\ ~HasColumn(df, "time")) =>
                 out = [rows |-> Len(df.rows), start_time |-> None, end_time |-> None,
                        duplicates |-> 0]
           /\ pc = "summarize_again" => sret2 = sret

\* times 300, 100, 300: three rows, from 100 to 300, one duplicate
C21_WitnessOneDuplicate ==
    /\ pc = "summarize_again"
    /\ sargs.df # None
    /\ HasColumn(sargs.df, "time")
    /\ Column(sargs.df, "time") = <<Num(300), Num(100), Num(300)>>
    /\ sret[1] = [rows |-> 3, start_time |-> Num(100), end_time |-> Num(300), duplicates |-> 1]
    /\ sret2 = sret

(***************************************************************************)
(* Calls of extract_from_patterns and extract_from_slrun                   *)
(***************************************************************************)
\* two windows on consecutive days, a row that names the first window again
\* (four-digit year, another entry time), a row with an impossible date
ExtractRows ==
    { [date |-> <<10, 13, 24>>, start |-> <<17, 0>>, entry |-> <<19, 30>>,
       exit |-> <<1, 30>>, end |-> <<7, 0>>],
      [date |-> <<10, 14, 24>>, start |-> <<17, 0>>, entry |-> <<19, 30>>,
       exit |-> <<1, 30>>, end |-> <<7, 0>>],
      [date |-> <<10, 13, 2024>>, start |-> <<17, 0>>, entry |-> <<23, 30>>,
       exit |-> <<1, 30>>, end |-> <<7, 0>>],
      [date |-> <<2, 30, 24>>, start |-> <<17, 0>>, entry |-> <<19, 30>>,
       exit |-> <<1, 30>>, end |-> <<7, 0>>] }

ExtractLines ==
    { RowLine(r) : r \in ExtractRows } \cup { OtherLine(k) : k \in {"blank", "header", "short"} }

\* content of a file that was in the output directory before the call
OldContent == << 0 >>

OldFiles ==
    { [name |-> [numbered |-> FALSE, index |-> 0, date |-> <<2024, 10, 13>>,
                 start |-> <<17, 0>>, end |-> <<7, 0>>],
       content |-> OldContent],
      [name |-> [numbered |-> TRUE, index |-> 1, date |-> <<>>, start |-> <<>>, end |-> <<>>],
       content |-> OldContent] }

ExtractArgs ==
    { a \in [kind : {"patterns", "slrun"},
             lines : SeqsUpTo(ExtractLines, MaxLines),
             csv : {"ok", "missing", "no_ts"},
             tz : {Some("UTC")},
             numbered : BOOLEAN,
             force : BOOLEAN,
             continue_on_error : BOOLEAN,
             out_dir : SUBSET OldFiles] :
        a.kind = "slrun" => ~a.numbered }

InitExtract ==
    /\ pc = "ready"
    /\ TimeIdle
    /\ CoreIdle
    /\ xargs \in ExtractArgs
    /\ files = xargs.out_dir
    /\ xret = None

CallExtractFromPatterns ==
    /\ pc = "ready"
    /\ xargs # None
    /\ xargs.kind = "patterns"
    /\ \E done \in { extract_from_patterns(xargs, files, zoneinfo) } :
          files' = done.files /\ xret' = done.out
    /\ pc' = "extract_from_patterns"
    /\ UNCHANGED <<timeVars, coreVars, xargs>>

CallExtractFromSlrun ==
    /\ pc = "ready"
    /\ xargs # None
    /\ xargs.kind = "slrun"
    /\ \E done \in { extract_from_slrun(xargs, files, zoneinfo) } :
          files' = done.files /\ xret' = done.out
    /\ pc' = "extract_from_slrun"
    /\ UNCHANGED <<timeVars, coreVars, xargs>>

NextExtract == CallExtractFromPatterns \/ CallExtractFromSlrun

SpecExtract == InitExtract /\ [][NextExtract]_vars

(***************************************************************************)
(* Properties of extract_from_patterns and extract_from_slrun              *)
(***************************************************************************)
Extracted == pc \in {"extract_from_patterns", "extract_from_slrun"}

\* the numbers of the lines with fewer than five parts
RefShortLines == { i \in DOMAIN xargs.lines : xargs.lines[i].kind = "short" }

\* line j is blank, or the header on the first non-blank line, or a row with
\* a date and times that exist
RefLineAccepted(j) ==
    LET line == xargs.lines[j]
    IN \/ line.kind = "blank"
       \/ line.kind = "header" /\ \A h \in 1..(j - 1) : xargs.lines[h].kind = "blank"
       \/ /\ line.kind = "row"
          /\ line.row.date # <<2, 30, 24>>

\* C23: a pattern file with a line of fewer than five parts is rejected as a
\* whole: the call raises ValueError and writes no file, whatever force and
\* continue_on_error are and however many valid lines stand before it; when
\* the lines before the first such line are accepted, the error is the one
\* that names that line.
C23_ShortLineRejectsFile ==
    (Extracted /\ RefShortLines # {}) =>
        LET k == CHOOSE i \in RefShortLines : \A j \in RefShortLines : i <= j
        IN /\ ~xret.ok
           /\ xret.err = "ValueError"
           /\ files = xargs.out_dir
           /\ (\A j \in 1..(k - 1) : RefLineAccepted(j)) => xret.val = k

\* a valid row, then a short line, with continue_on_error and force: nothing is written
C23_WitnessValidLineBefore ==
    /\ pc = "extract_from_patterns"
    /\ xargs.continue_on_error /\ xargs.force
    /\ xargs.csv = "ok"
    /\ xargs.out_dir = {}
    /\ Len(xargs.lines) = 2
    /\ xargs.lines[1].kind = "row" /\ xargs.lines[1].row.date = <<10, 13, 24>>
    /\ xargs.lines[2].kind = "short"
    /\ xret = [ok |-> FALSE, val |-> 2, err |-> "ValueError"]
    /\ files = {}

\* the rows of the pattern file, in order
RefPatternRows == SelectSeq(xargs.lines, LAMBDA line : line.kind = "row")

\* the name of the output file of each row, in order
RefNames ==
    [i \in DOMAIN RefPatternRows |->
        LET row == RefPatternRows[i].row
        IN IF xargs.numbered
           THEN [numbered |-> TRUE, index |-> i, date |-> <<>>, start |-> <<>>, end |-> <<>>]
           ELSE [numbered |-> FALSE, index |-> 0,
                 date |-> <<RefYear(row.date), row.date[1], row.date[2]>>,
                 start |-> row.start, end |-> row.end]]

RefOldNames == { f.name : f \in xargs.out_dir }

\* the paths a run has to return: every window with force, and without force
\* the windows whose file neither was there before nor was written for an
\* earlier window of the run; none if the CSV cannot be sliced
RefExpectedPaths ==
    LET names == RefNames
        due == Positions(Len(names),
                         LAMBDA i : xargs.force
                                      \/ (/\ names[i] \notin RefOldNames
                                          /\ \A j \in 1..(i - 1) : names[j] # names[i]))
    IN IF xargs.csv # "ok" THEN <<>> ELSE [p \in DOMAIN due |-> names[due[p]]]

\* the rows of the CSV inside the window of a row, in UTC
RefWindowRows(row) ==
    LET y == RefYear(row.date)
        s == RefUtcEpoch(y, row.date[1], row.date[2], row.start)
        e == RefUtcEpoch(y, row.date[1], row.date[2], row.end)
        e2 == IF e > s THEN e ELSE RefUtcEpochNextDay(y, row.date[1], row.date[2], row.end)
    IN SelectSeq(CsvTs, LAMBDA ts : s <= ts /\ ts <= e2)

C24_WitnessForced ==
    /\ pc = "extract_from_slrun"
    /\ xargs.force /\ xargs.csv = "ok"
    /\ Len(xargs.lines) = 2
    /\ xargs.lines[1].kind = "row" /\ xargs.lines[1].row.date = <<10, 13, 24>>
    /\ xargs.lines[2].kind = "row" /\ xargs.lines[2].row.date = <<10, 14, 24>>
    /\ \E f \in xargs.out_dir : f.name = RefNames[1] /\ f \notin files
    /\ xret.ok
    /\ xret.val = RefNames
    /\ [name |-> RefNames[1], content |-> << 1728838800, 1728860000, 1728889200 >>] \in files

(***************************************************************************)
(* Calls of normalize and of merge_frames, taken together                  *)
(***************************************************************************)
InitCore == InitNormalize \/ InitMerge

NextCore == NextNormalize \/ NextMerge

SpecCore == InitCore /\ [][NextCore]_vars

(***************************************************************************)
(* Properties of the tables normalize and merge_frames return              *)
(***************************************************************************)
\* the column names of the inputs that are not lowercase or carry blanks
RefNotLowercase ==
    { "Time", "Timestamp", "Date", "O", "H", "L", "C", "Vol", " Volume ", "Volume",
      "EMA", "RSI" }

\* the alias names that stand for another name
RefAliases == { "timestamp", "datetime", "date", "t", "o", "h", "l", "c", "v", "vol" }

RefCanonicalColumns(df) ==
    /\ \A c \in {"time", "open", "high", "low", "close", "volume"} : c \in Range(df.cols)
    /\ \A i \in DOMAIN df.cols : df.cols[i] \notin RefNotLowercase \cup RefAliases
    /\ \A i, j \in DOMAIN df.cols : i < j => df.cols[i] # df.cols[j]

\* C14: every table normalize or merge_frames returns, empty or not, has the
\* six canonical columns, only lowercase names, no alias name left, and no
\* name twice.
C14_ReturnedColumnsCanonical ==
    /\ (pc \in {"normalize", "normalize_again"} /\ nret.ok) => RefCanonicalColumns(nret.val)
    /\ (pc = "normalize_again" /\ nret2.ok) => RefCanonicalColumns(nret2.val)
    /\ MergeReturned => RefCanonicalColumns(mret.val)

\* Time and Date both stand for time, " Volume " for volume
C14_WitnessAliases ==
    /\ pc = "normalize" /\ nret.ok
    /\ nargs.df.cols = <<"Time", "Date", "open", "high", "low", "close", " Volume ">>
    /\ Len(nret.val.rows) = 1
    /\ nret.val.cols = REQUIRED_COLUMNS

====
